---- MODULE Spec2Model ----
(***************************************************************************)
(* Model of the adaptive run-merging engine of multiway-powersort-         *)
(* experiments: node-power calculation, run scanning, the two-way and      *)
(* k-way merges with their drop guard, and the PowerSort,                  *)
(* MultiwayPowerSort and TimSort orchestrators.                            *)
(*                                                                         *)
(* Indices are 0-based as in the source; a TLA+ sequence s holds the       *)
(* element of index i at s[i + 1].  A range is a record [start, end],      *)
(* half-open, like std::ops::Range<usize>.                                 *)
(*                                                                         *)
(* Machine words are BITS wide.  The source runs with usize::BITS = 64;    *)
(* the model keeps every width-dependent expression in terms of BITS       *)
(* (usize::MAX, usize::BITS / 2, the fixed-point shift 30 = BITS / 2 - 2)  *)
(* and instantiates BITS with a width whose whole value range can be       *)
(* enumerated.                                                             *)
(***************************************************************************)
EXTENDS Integers, Sequences, FiniteSets, TLC

VARIABLES
    pc,       \* control position of the operation under way
    cfg,      \* const generics / build profile of the variant under way
    slice,    \* the slice handed to the operation
    buffer,   \* the scratch buffer (UNINIT marks an uninitialised slot)
    input,    \* contents of slice when the operation was called
    loc       \* local variables of the operation under way

vars == <<pc, cfg, slice, buffer, input, loc>>

-----------------------------------------------------------------------------
(* Bounds of the model *)

\* longest slice handed to a sort
MaxLen == 6
\* number of distinct keys in a slice
MaxKey == 3
\* largest n handed to the node-power methods
MaxNodeN == 15
\* longest slice handed to every sort alike, the mergesorts and the
\* insertion sorts included
MaxShortLen == 4
\* length of the slices built from runs that MultiwayPowerSort is given:
\* long enough for MERGE_K_RUNS - 1 = 3 runs of one power to be popped by an
\* iteration of the main loop
MaxRunsLen == 14

\* longest slice handed to a two-way merge, and to a k-way merge
MaxTwoWayLen == 7
\* longest slice handed to Galloping::merge alone: long enough for the
\* galloping loop to run a second time
MaxGallopLen == 8

MaxKWayLen == 5
\* length of the slices handed to TimSort alone, and the most runs they are
\* made of: enough for four pending runs and a fifth on top
MaxTimLen == 33
MaxTimRuns == 5

\* buffer slots beyond the length of the slice
Spares == {0, 1}

-----------------------------------------------------------------------------
(* Machine integers *)

BITS == 8

\* the width of usize in a call: BITS, unless the configuration of the call
\* names a wider word
WORD_BITS == IF "BITS" \in DOMAIN cfg THEN cfg.BITS ELSE BITS

RECURSIVE Pow(_, _)
Pow(b, e) == IF e = 0 THEN 1 ELSE b * Pow(b, e - 1)

USIZE_MAX == Pow(2, WORD_BITS) - 1

Min(a, b) == IF a <= b THEN a ELSE b

Max(a, b) == IF a >= b THEN a ELSE b

\* usize::isqrt
RECURSIVE IsqrtFrom(_, _)
IsqrtFrom(x, r) == IF (r + 1) * (r + 1) > x THEN r ELSE IsqrtFrom(x, r + 1)

Isqrt(x) == IsqrtFrom(x, 0)

\* usize::ilog(base), defined for x >= 1
RECURSIVE Ilog(_, _)
Ilog(x, base) == IF x < base THEN 0 ELSE 1 + Ilog(x \div base, base)

\* usize::trailing_zeros, defined for x >= 1
RECURSIVE TrailingZeros(_)
TrailingZeros(x) == IF x % 2 = 1 THEN 0 ELSE 1 + TrailingZeros(x \div 2)

\* usize::count_ones
RECURSIVE CountOnes(_)
CountOnes(x) == IF x = 0 THEN 0 ELSE (x % 2) + CountOnes(x \div 2)

\* number of bits needed to write x
RECURSIVE BitLength(_)
BitLength(x) == IF x = 0 THEN 0 ELSE 1 + BitLength(x \div 2)

\* usize::leading_zeros
LeadingZeros(x) == WORD_BITS - BitLength(x)

\* bitwise exclusive or of two words
RECURSIVE BitXor(_, _)
BitXor(x, y) ==
    IF x = 0 /\ y = 0 THEN 0
    ELSE (IF x % 2 = y % 2 THEN 0 ELSE 1) + 2 * BitXor(x \div 2, y \div 2)

\* x << k on a WORD_BITS-wide word: high bits are dropped, never a panic
Shl(x, k) == (x * Pow(2, k)) % Pow(2, WORD_BITS)

\* Outcomes of an operation that does not return a value
\* (numbers, so that they compare with the values an operation returns)
PANIC == -1

NO_RETURN == -2

-----------------------------------------------------------------------------
(* Runs: std::ops::Range<usize> *)

Run(s, e) == [start |-> s, end |-> e]

\* ExactSizeIterator::len of a Range: 0 when end <= start
RunLen(r) == IF r.end > r.start THEN r.end - r.start ELSE 0

-----------------------------------------------------------------------------
(* Node power (powersort.rs, mod node_power) *)

\* {K : K.count_ones() == 1, K > 1}
IsPowerOfTwo(K) == K > 1 /\ CountOnes(K) = 1

DivisionLoop_MAX_N == Isqrt(USIZE_MAX)

BitwiseLoop_MAX_N == Pow(2, WORD_BITS - 1)

MostSignificantSetBit_MAX_N == Pow(2, WORD_BITS \div 2 - 1)

HALF_MASK == USIZE_MAX \div Pow(2, WORD_BITS \div 2)

\* the shift of the fixed-point division, 30 on the 64-bit word
FIXED_POINT_SHIFT == WORD_BITS \div 2 - 2

\* iterations after which a loop of the node-power methods is given up
LoopCap == 4 * WORD_BITS

\* The while loop of DivisionLoop::node_power.  checks: overflow-checks of
\* the build (debug-assertions profile); without them arithmetic wraps.
RECURSIVE DivisionLoopIter(_, _, _, _, _, _)
DivisionLoopIter(K, n2, a, b, power, checks) ==
    LET diff == IF b >= a THEN b - a ELSE b - a + Pow(2, WORD_BITS)
    IN  IF b < a /\ checks THEN PANIC
        ELSE IF diff <= n2 /\ (a \div n2) = (b \div n2)
        THEN IF (a * K > USIZE_MAX \/ b * K > USIZE_MAX) /\ checks THEN PANIC
             ELSE IF power >= LoopCap THEN NO_RETURN
             ELSE DivisionLoopIter(K, n2, (a * K) % Pow(2, WORD_BITS),
                                   (b * K) % Pow(2, WORD_BITS), power + 1, checks)
        ELSE power

DivisionLoop(K, n, run_a, run_b, checks) ==
    IF n > DivisionLoop_MAX_N THEN PANIC
    ELSE LET n2 == n * 2
             a  == 2 * run_a.start + RunLen(run_a)
             b  == 2 * run_b.start + RunLen(run_b)
         IN  IF (a > USIZE_MAX \/ b > USIZE_MAX \/ n2 > USIZE_MAX) /\ checks
             THEN PANIC
             ELSE DivisionLoopIter(K, n2 % Pow(2, WORD_BITS), a % Pow(2, WORD_BITS),
                                   b % Pow(2, WORD_BITS), 0, checks)

\* The while loop of BitwiseLoop::node_power
RECURSIVE BitwiseLoopIter(_, _, _, _)
BitwiseLoopIter(n, l2, r2, common_bits) ==
    LET digit_a == l2 >= n
        digit_b == r2 >= n
    IN  IF digit_a = digit_b
        THEN IF common_bits >= LoopCap THEN NO_RETURN
             ELSE LET l == IF digit_a THEN l2 - n ELSE l2
                      r == IF digit_a THEN r2 - n ELSE r2
                  IN  BitwiseLoopIter(n, Shl(l, 1), Shl(r, 1), common_bits + 1)
        ELSE common_bits

BitwiseLoop(K, n, run_a, run_b, checks) ==
    IF n > BitwiseLoop_MAX_N THEN PANIC
    ELSE LET factor == TrailingZeros(K)
             l2 == run_a.start + run_a.end
             r2 == run_b.start + run_b.end
         IN  IF (l2 > USIZE_MAX \/ r2 > USIZE_MAX) /\ checks THEN PANIC
             ELSE LET common_bits ==
                          BitwiseLoopIter(n, l2 % Pow(2, WORD_BITS),
                                          r2 % Pow(2, WORD_BITS), 0)
                  IN  IF common_bits = NO_RETURN THEN NO_RETURN
                      ELSE common_bits \div factor + 1

MostSignificantSetBit(K, n, run_a, run_b, checks) ==
    IF n > MostSignificantSetBit_MAX_N THEN PANIC
    ELSE LET factor == TrailingZeros(K)
             l2 == run_a.start + run_a.end
             r2 == run_b.start + run_b.end
         IN  IF (l2 > USIZE_MAX \/ r2 > USIZE_MAX) /\ checks THEN PANIC
             ELSE LET a == (Shl(l2 % Pow(2, WORD_BITS), FIXED_POINT_SHIFT) \div n)
                               % (HALF_MASK + 1)
                      b == (Shl(r2 % Pow(2, WORD_BITS), FIXED_POINT_SHIFT) \div n)
                               % (HALF_MASK + 1)
                      lz == LeadingZeros(BitXor(a, b)) - WORD_BITS \div 2
                  IN  IF lz = 0
                      THEN IF checks THEN PANIC
                           ELSE USIZE_MAX \div factor + 1
                      ELSE (lz - 1) \div factor + 1

\* NodePowerMethod<K>::node_power of the method named by `method`
NodePower(method, K, n, run_a, run_b, checks) ==
    CASE method = "DivisionLoop" -> DivisionLoop(K, n, run_a, run_b, checks)
      [] method = "BitwiseLoop" -> BitwiseLoop(K, n, run_a, run_b, checks)
      [] method = "MostSignificantSetBit" ->
             MostSignificantSetBit(K, n, run_a, run_b, checks)

\* NodePowerMethod<K>::MAX_N; evaluating it for a K the method does not
\* support fails to compile, which Supports records
MAX_N(method) ==
    CASE method = "DivisionLoop" -> DivisionLoop_MAX_N
      [] method = "BitwiseLoop" -> BitwiseLoop_MAX_N
      [] method = "MostSignificantSetBit" -> MostSignificantSetBit_MAX_N

Supports(method, K) ==
    IF method = "DivisionLoop" THEN K >= 2 ELSE IsPowerOfTwo(K)

NodePowerMethods == {"DivisionLoop", "BitwiseLoop", "MostSignificantSetBit"}

\* widths K of the merge tree exercised by the tests of the node-power methods
NodePowerKs == 2 .. 8

-----------------------------------------------------------------------------
(* Elements: test::IndexedOrdered(index, key), ordered by key alone *)

Elem(i, k) == <<i, k>>

Index(x) == x[1]

Key(x) == x[2]

\* Ord::lt, le, gt, ge of IndexedOrdered
Lt(x, y) == Key(x) < Key(y)

Le(x, y) == Key(x) <= Key(y)

Gt(x, y) == Key(x) > Key(y)

Ge(x, y) == Key(x) >= Key(y)

\* the comparison named f (T::lt, T::le, T::gt, T::ge) applied to x and y
Cmp(f, x, y) ==
    CASE f = "lt" -> Lt(x, y)
      [] f = "le" -> Le(x, y)
      [] f = "gt" -> Gt(x, y)
      [] f = "ge" -> Ge(x, y)

\* IndexedOrdered::map_iter: tag every key with its position
MapIter(keys) == [i \in 1 .. Len(keys) |-> Elem(i - 1, keys[i])]

\* slice[from..to]
Sub(s, from, to) == [i \in 1 .. (to - from) |-> s[from + i]]

\* slice with slice[from..from + len(part)] replaced by part
Splice(s, from, part) ==
    [i \in 1 .. Len(s) |->
        IF i > from /\ i <= from + Len(part) THEN part[i - from] ELSE s[i]]

\* slice::reverse
Reverse(s) == [i \in 1 .. Len(s) |-> s[Len(s) + 1 - i]]

\* slice::is_sorted
IsSorted(s) == \A i \in 1 .. Len(s) - 1 : Le(s[i], s[i + 1])

-----------------------------------------------------------------------------
(* Run scanner (merging.rs, timsort.rs) *)

\* find_first_sequentially over slice.iter().enumerate(): the index of the
\* first element with f(current, next), or -1 for Ok(None)
find_first_sequentially(s, f) ==
    LET hits == {i \in 0 .. Len(s) - 2 : Cmp(f, s[i + 1], s[i + 2])}
    IN  IF hits = {} THEN -1
        ELSE CHOOSE i \in hits : \A j \in hits : i <= j

weakly_increasing_prefix_index(s) ==
    IF Len(s) = 0 THEN 0
    ELSE LET found == find_first_sequentially(s, "gt")
         IN  IF found >= 0 THEN found + 1 ELSE Len(s)

strictly_decreasing_prefix_index_nonstrict(s) ==
    IF Len(s) = 0 THEN 0
    ELSE LET found == find_first_sequentially(s, "lt")
         IN  IF found >= 0 THEN found + 1 ELSE Len(s)

strictly_decreasing_prefix_index(s) ==
    IF Len(s) = 0 THEN 0
    ELSE LET found == find_first_sequentially(s, "le")
         IN  IF found >= 0 THEN found + 1 ELSE Len(s)

\* the suffix functions run find_first_sequentially over
\* slice.iter().enumerate().rev(): `current` is the later element, and the
\* index returned is that of `current`
weakly_increasing_suffix_index(s) ==
    IF Len(s) = 0 THEN 0
    ELSE LET found == find_first_sequentially(Reverse(s), "lt")
         IN  IF found >= 0 THEN Len(s) - 1 - found ELSE Len(s)

strictly_decreasing_suffix_index(s) ==
    IF Len(s) = 0 THEN 0
    ELSE LET found == find_first_sequentially(Reverse(s), "ge")
         IN  IF found >= 0 THEN Len(s) - 1 - found ELSE Len(s)

\* TimSort::count_run_and_make_ascending: the slice on exit and the result
count_run_and_make_ascending(s) ==
    IF Len(s) < 2 THEN [slice |-> s, result |-> Len(s)]
    ELSE IF Gt(s[1], s[2])
    THEN LET run_end == strictly_decreasing_prefix_index(s)
         IN  [slice |-> Splice(s, 0, Reverse(Sub(s, 0, run_end))),
              result |-> run_end]
    ELSE [slice |-> s, result |-> weakly_increasing_prefix_index(s)]

-----------------------------------------------------------------------------
(* Merge state.  A merge under way is a record m = [pc, slice, buffer, loc]: *)
(* the slice and buffer it was handed and its locals loc, among them the    *)
(* drop guard (runs, output, armed).  A pointer range [mem, start, end]     *)
(* addresses mem = "slice" or mem = "buffer".                               *)

UNINIT == <<-1, -1>>

\* a buffer of n MaybeUninit slots: Vec::with_capacity(n)
UninitBuffer(n) == [j \in 1 .. n |-> UNINIT]

Ptr(mem, s, e) == [mem |-> mem, start |-> s, end |-> e]

\* Run::len, Run::is_empty of a pointer range
PtrLen(r) == r.end - r.start

IsEmpty(r) == r.end = r.start

\* the element a pointer addresses
Read(m, mem, i) == IF mem = "slice" THEN m.slice[i + 1] ELSE m.buffer[i + 1]

\* Run::as_slice
AsSlice(m, r) == [j \in 1 .. PtrLen(r) |-> Read(m, r.mem, r.start + j - 1)]

\* *run.start() and *run.end().sub(1)
AtStart(m, i) == Read(m, m.loc.runs[i].mem, m.loc.runs[i].start)

AtLast(m, i) == Read(m, m.loc.runs[i].mem, m.loc.runs[i].end - 1)

\* two ranges of `count` elements of the slice overlap
Overlap(mem, a, b, count) == mem = "slice" /\ count > 0 /\ a < b + count /\ b < a + count

\* Run::copy_nonoverlapping_prefix_to / copy_prefix_to: move the first count
\* elements of run i to the front of the output and advance both.
\* loc.ub records a call that breaks the safety contract of the copy.
CopyPrefix(m, i, count, nonoverlapping) ==
    LET r == m.loc.runs[i]
        o == m.loc.output
    IN  IF count > PtrLen(r) \/ count > PtrLen(o)
        THEN [m EXCEPT !.loc.ub = TRUE]
        ELSE LET src == [j \in 1 .. count |-> Read(m, r.mem, r.start + j - 1)]
                 bad == \/ nonoverlapping /\ Overlap(r.mem, r.start, o.start, count)
                        \/ \E j \in 1 .. count : src[j] = UNINIT
             IN  [m EXCEPT !.slice = Splice(m.slice, o.start, src),
                           !.loc.runs[i].start = r.start + count,
                           !.loc.output.start = o.start + count,
                           !.loc.ub = @ \/ bad]

\* Run::copy_nonoverlapping_suffix_to / copy_suffix_to: move the last count
\* elements of run i to the back of the output and shrink both
CopySuffix(m, i, count, nonoverlapping) ==
    LET r == m.loc.runs[i]
        o == m.loc.output
    IN  IF count > PtrLen(r) \/ count > PtrLen(o)
        THEN [m EXCEPT !.loc.ub = TRUE]
        ELSE LET src == [j \in 1 .. count |-> Read(m, r.mem, r.end - count + j - 1)]
                 bad == \/ nonoverlapping
                           /\ Overlap(r.mem, r.end - count, o.end - count, count)
                        \/ \E j \in 1 .. count : src[j] = UNINIT
             IN  [m EXCEPT !.slice = Splice(m.slice, o.end - count, src),
                           !.loc.runs[i].end = r.end - count,
                           !.loc.output.end = o.end - count,
                           !.loc.ub = @ \/ bad]

\* the copy taking one element more than count
CopyToBuffer_one_more(m, from, count) ==
    [m EXCEPT !.buffer = [j \in 1 .. Len(m.buffer) |->
                             IF j <= count + 1 /\ from + j <= Len(m.slice)
                             THEN m.slice[from + j] ELSE m.buffer[j]]]

\* std::ptr::copy_nonoverlapping(slice[from..from + count], buffer[..count])
CopyToBuffer(m, from, count) ==
    [m EXCEPT !.buffer = [j \in 1 .. Len(m.buffer) |->
                             IF j <= count THEN m.slice[from + j] ELSE m.buffer[j]]]

\* MergingDropGuard::new(runs, output)
NewGuard(m, runs, output) ==
    [m EXCEPT !.loc = [runs |-> runs, output |-> output, armed |-> TRUE,
                       ub |-> FALSE, assert_failed |-> FALSE,
                       debug_assert_failed |-> FALSE] @@ m.loc]

\* MergingDropGuard::is_empty: every run and the output are used up
GuardIsEmpty(m) ==
    /\ \A i \in 1 .. Len(m.loc.runs) : IsEmpty(m.loc.runs[i])
    /\ IsEmpty(m.loc.output)

\* Drop for MergingDropGuard: an armed guard moves what is left of every
\* run, in turn, to the output
RECURSIVE DropRuns(_, _)
DropRuns(m, i) ==
    IF i > Len(m.loc.runs) THEN m
    ELSE DropRuns(CopyPrefix(m, i, PtrLen(m.loc.runs[i]), FALSE), i + 1)

DropGuard(m) ==
    IF "armed" \in DOMAIN m.loc /\ m.loc.armed
    THEN [DropRuns(m, 1) EXCEPT !.loc.armed = FALSE]
    ELSE m

\* a panic that unwinds past a guard that is never dropped
Unwind_without_guard(m) == [m EXCEPT !.pc = "panicked"]

\* a panic unwinds the merge: the guard, if any, is dropped
Unwind(m) == [DropGuard(m) EXCEPT !.pc = "panicked"]

\* a failing assert! inside the guarded region
AssertFail(m) ==
    Unwind(IF "assert_failed" \in DOMAIN m.loc
           THEN [m EXCEPT !.loc.assert_failed = TRUE] ELSE m)

\* debug_assert!(guard.is_empty()); guard.disarm(); return
Disarm(m) ==
    [m EXCEPT !.pc = "returned",
              !.loc.armed = FALSE,
              !.loc.debug_assert_failed = @ \/ ~GuardIsEmpty(m)]

\* return before any guard exists
Return(m) == [m EXCEPT !.pc = "returned"]

\* a failing assert! before any guard exists
Panic(m) == [m EXCEPT !.pc = "panicked"]

-----------------------------------------------------------------------------
(* CopyBoth::merge (two_way.rs) *)

\* the head of the while loop, without the copy of what is left of the
\* left run
CopyBothLoop_right_rest_only(m) ==
    IF ~IsEmpty(m.loc.runs[1]) /\ ~IsEmpty(m.loc.runs[2])
    THEN [m EXCEPT !.pc = "copy_both_compare"]
    ELSE Disarm(IF ~IsEmpty(m.loc.runs[2])
                THEN CopyPrefix(m, 2, PtrLen(m.loc.runs[2]), TRUE) ELSE m)

\* the head of the while loop: on to the next comparison, or finish
CopyBothLoop(m) ==
    IF ~IsEmpty(m.loc.runs[1]) /\ ~IsEmpty(m.loc.runs[2])
    THEN [m EXCEPT !.pc = "copy_both_compare"]
    ELSE LET m1 == IF ~IsEmpty(m.loc.runs[1])
                   THEN CopyPrefix(m, 1, PtrLen(m.loc.runs[1]), TRUE) ELSE m
             m2 == IF ~IsEmpty(m1.loc.runs[2])
                   THEN CopyPrefix(m1, 2, PtrLen(m1.loc.runs[2]), TRUE) ELSE m1
         IN  Disarm(m2)

\* the entry with the copy into the buffer ahead of the second assertion
CopyBothEntry_copy_before_assert(m) ==
    LET n == Len(m.slice)
        run_length == m.loc.run_length
    IN  IF n = 0 THEN Return(m)
        ELSE IF ~(Len(m.buffer) >= n) THEN Panic(m)
        ELSE IF ~(run_length \in 0 .. n - 1) THEN Panic(CopyToBuffer(m, 0, n))
        ELSE CopyBothLoop(NewGuard(CopyToBuffer(m, 0, n),
                                   <<Ptr("buffer", 0, run_length),
                                     Ptr("buffer", run_length, n)>>,
                                   Ptr("slice", 0, n)))

\* from the call to the first comparison
CopyBothEntry(m) ==
    LET n == Len(m.slice)
        run_length == m.loc.run_length
    IN  IF n = 0 THEN Return(m)
        ELSE IF ~(Len(m.buffer) >= n) THEN Panic(m)
        ELSE IF ~(run_length \in 0 .. n - 1) THEN Panic(m)
        ELSE CopyBothLoop(NewGuard(CopyToBuffer(m, 0, n),
                                   <<Ptr("buffer", 0, run_length),
                                     Ptr("buffer", run_length, n)>>,
                                   Ptr("slice", 0, n)))

\* one iteration of the while loop, taking from the right run on ties
CopyBothCompare_right_on_ties(m) ==
    CopyBothLoop(IF Lt(AtStart(m, 1), AtStart(m, 2))
                 THEN CopyPrefix(m, 1, 1, TRUE)
                 ELSE CopyPrefix(m, 2, 1, TRUE))

\* one iteration of the while loop
CopyBothCompare(m) ==
    CopyBothLoop(IF Le(AtStart(m, 1), AtStart(m, 2))
                 THEN CopyPrefix(m, 1, 1, TRUE)
                 ELSE CopyPrefix(m, 2, 1, TRUE))

-----------------------------------------------------------------------------
(* Galloping::gallop (two_way.rs) *)

\* slice::partition_point(|x| cmp(key, x)) of a slice partitioned by it
PartitionPoint(s, cmp, key) ==
    LET rest == {i \in 1 .. Len(s) : ~Cmp(cmp, key, s[i])}
    IN  IF rest = {} THEN Len(s)
        ELSE (CHOOSE i \in rest : \A j \in rest : i <= j) - 1

\* bitwise or of two words
RECURSIVE BitOr(_, _)
BitOr(x, y) ==
    IF x = 0 /\ y = 0 THEN 0
    ELSE (IF x % 2 = 1 \/ y % 2 = 1 THEN 1 ELSE 0) + 2 * BitOr(x \div 2, y \div 2)

\* the quadratic search: <<last_offset, offset>> when the while loop exits;
\* dir = 1 probes slice[hint + offset], dir = -1 probes slice[hint - offset]
RECURSIVE GallopSearch(_, _, _, _, _, _, _, _)
GallopSearch(s, key, f, hint, dir, last_offset, offset, max_offset) ==
    IF offset < max_offset /\ Cmp(f, key, s[hint + dir * offset + 1])
    THEN GallopSearch(s, key, f, hint, dir, offset, (offset * 2) + 1, max_offset)
    ELSE <<last_offset, offset>>

\* the interval assertion and the binary search in slice[last_offset..offset]
GallopFinish(cmp, key, s, last_offset, offset) ==
    IF ~(last_offset < offset + 1 /\ offset <= Len(s)) THEN PANIC
    ELSE PartitionPoint(Sub(s, last_offset, offset), cmp, key) + last_offset

\* gallop with the comparison functions of the two directions exchanged
Gallop_directions_exchanged(LEFT, key, s, hint) ==
    IF ~(hint \in 0 .. Len(s) - 1) THEN PANIC
    ELSE LET cmp == IF LEFT THEN "ge" ELSE "gt"
             cmp_negated == IF LEFT THEN "lt" ELSE "le"
         IN  IF Cmp(cmp, key, s[hint + 1])
             THEN LET max_offset == Len(s) - hint
                      found == GallopSearch(s, key, cmp, hint, 1, 0, 1, max_offset)
                      offset == Min(found[2], max_offset)
                  IN  GallopFinish(cmp, key, s, found[1] + hint + 1, offset + hint)
             ELSE LET max_offset == hint + 1
                      found == GallopSearch(s, key, cmp_negated, hint, -1, 0, 1,
                                            max_offset)
                      offset == Min(found[2], max_offset)
                      tmp == found[1]
                  IN  GallopFinish(cmp, key, s, hint + 1 - offset, hint - tmp)

\* gallop::<T, LEFT>(key, slice, hint): the insertion index or PANIC
Gallop(LEFT, key, s, hint) ==
    IF ~(hint \in 0 .. Len(s) - 1) THEN PANIC
    ELSE LET cmp == IF LEFT THEN "gt" ELSE "ge"
             cmp_negated == IF LEFT THEN "le" ELSE "lt"
         IN  IF Cmp(cmp, key, s[hint + 1])
             THEN LET max_offset == Len(s) - hint
                      found == GallopSearch(s, key, cmp, hint, 1, 0, 1, max_offset)
                      offset == Min(found[2], max_offset)
                  IN  GallopFinish(cmp, key, s, found[1] + hint + 1, offset + hint)
             ELSE LET max_offset == hint + 1
                      found == GallopSearch(s, key, cmp_negated, hint, -1, 0, 1,
                                            max_offset)
                      offset == Min(found[2], max_offset)
                      tmp == found[1]
                  IN  GallopFinish(cmp, key, s, hint + 1 - offset, hint - tmp)

-----------------------------------------------------------------------------
(* Galloping::merge_low (two_way.rs).  Run 1 is left (in the buffer), run 2 *)
(* is right (in the slice).                                                  *)

\* the end of merge_low that leaves the last element of the left run where
\* it is
MergeLowAfter_left_behind(m) ==
    LET m0 == [m EXCEPT !.loc.min_gallop = Max(@, 1)]
    IN  IF PtrLen(m0.loc.runs[1]) = 1
        THEN IF IsEmpty(m0.loc.runs[2]) THEN AssertFail(m0)
             ELSE Disarm(CopyPrefix(m0, 2, PtrLen(m0.loc.runs[2]), FALSE))
        ELSE IF IsEmpty(m0.loc.runs[1]) \/ ~IsEmpty(m0.loc.runs[2])
             THEN AssertFail(m0)
             ELSE Disarm(CopyPrefix(m0, 1, PtrLen(m0.loc.runs[1]), TRUE))

\* after `break 'outer`: clamp min_gallop, copy what is left, disarm
MergeLowAfter(m) ==
    LET m0 == [m EXCEPT !.loc.min_gallop = Max(@, 1)]
    IN  IF PtrLen(m0.loc.runs[1]) = 1
        THEN IF IsEmpty(m0.loc.runs[2]) THEN AssertFail(m0)
             ELSE Disarm(CopyPrefix(CopyPrefix(m0, 2, PtrLen(m0.loc.runs[2]), FALSE),
                                    1, 1, TRUE))
        ELSE IF IsEmpty(m0.loc.runs[1]) \/ ~IsEmpty(m0.loc.runs[2])
             THEN AssertFail(m0)
             ELSE Disarm(CopyPrefix(m0, 1, PtrLen(m0.loc.runs[1]), TRUE))

\* the head of the one-at-a-time loop and of the galloping loop
RECURSIVE MergeLowGallopHead(_)
MergeLowOneHead(m) ==
    IF BitOr(m.loc.count1, m.loc.count2) < m.loc.min_gallop
    THEN [m EXCEPT !.pc = "low_one"]
    ELSE MergeLowGallopHead(m)

\* the head of the galloping loop with min_gallop raised by 1 on leaving
MergeLowGallopHead_raised_by_one(m) ==
    IF m.loc.count1 >= cfg.MIN_GALLOP \/ m.loc.count2 >= cfg.MIN_GALLOP
    THEN [m EXCEPT !.pc = "low_gallop_left"]
    ELSE MergeLowOneHead([m EXCEPT !.loc.min_gallop = @ + 1,
                                   !.loc.count1 = 0, !.loc.count2 = 0])

MergeLowGallopHead(m) ==
    IF m.loc.count1 >= cfg.MIN_GALLOP \/ m.loc.count2 >= cfg.MIN_GALLOP
    THEN [m EXCEPT !.pc = "low_gallop_left"]
    ELSE MergeLowOneHead([m EXCEPT !.loc.min_gallop = @ + 2,
                                   !.loc.count1 = 0, !.loc.count2 = 0])

\* merge_low from its call to the first comparison
MergeLowEntry(m, lo, hi, run_length) ==
    IF ~(Len(m.buffer) >= run_length) THEN Panic(m)
    ELSE IF ~(run_length \in 1 .. (hi - lo) - 1) THEN Panic(m)
    ELSE LET g == NewGuard(CopyToBuffer(m, lo, run_length),
                           <<Ptr("buffer", 0, run_length),
                             Ptr("slice", lo + run_length, hi)>>,
                           Ptr("slice", lo, hi))
             m1 == CopyPrefix(g, 2, 1, TRUE)
         IN  IF IsEmpty(m1.loc.runs[2])
             THEN Disarm(CopyPrefix(m1, 1, PtrLen(m1.loc.runs[1]), TRUE))
             ELSE IF PtrLen(m1.loc.runs[1]) = 1
             THEN Disarm(CopyPrefix(CopyPrefix(m1, 2, PtrLen(m1.loc.runs[2]), FALSE),
                                    1, 1, TRUE))
             ELSE MergeLowOneHead([m1 EXCEPT !.loc.count1 = 0, !.loc.count2 = 0])

\* the one-at-a-time loop that goes on until the left run is empty
MergeLowOne_until_empty(m) ==
    IF ~(PtrLen(m.loc.runs[1]) > 1) \/ IsEmpty(m.loc.runs[2]) THEN AssertFail(m)
    ELSE IF Lt(AtStart(m, 2), AtStart(m, 1))
    THEN LET m1 == [CopyPrefix(m, 2, 1, TRUE) EXCEPT !.loc.count2 = @ + 1,
                                                    !.loc.count1 = 0]
         IN  IF IsEmpty(m1.loc.runs[2]) THEN MergeLowAfter(m1)
             ELSE MergeLowOneHead(m1)
    ELSE LET m1 == [CopyPrefix(m, 1, 1, TRUE) EXCEPT !.loc.count1 = @ + 1,
                                                    !.loc.count2 = 0]
         IN  IF IsEmpty(m1.loc.runs[1]) THEN MergeLowAfter(m1)
             ELSE MergeLowOneHead(m1)

\* one iteration of the one-at-a-time loop
MergeLowOne(m) ==
    IF ~(PtrLen(m.loc.runs[1]) > 1) \/ IsEmpty(m.loc.runs[2]) THEN AssertFail(m)
    ELSE IF Lt(AtStart(m, 2), AtStart(m, 1))
    THEN LET m1 == [CopyPrefix(m, 2, 1, TRUE) EXCEPT !.loc.count2 = @ + 1,
                                                    !.loc.count1 = 0]
         IN  IF IsEmpty(m1.loc.runs[2]) THEN MergeLowAfter(m1)
             ELSE MergeLowOneHead(m1)
    ELSE LET m1 == [CopyPrefix(m, 1, 1, TRUE) EXCEPT !.loc.count1 = @ + 1,
                                                    !.loc.count2 = 0]
         IN  IF PtrLen(m1.loc.runs[1]) = 1 THEN MergeLowAfter(m1)
             ELSE MergeLowOneHead(m1)

\* first half of an iteration of the galloping loop: gallop in the left run
MergeLowGallopLeft(m) ==
    LET TookRight(m2) ==
            IF IsEmpty(m2.loc.runs[2]) THEN MergeLowAfter(m2)
            ELSE [m2 EXCEPT !.pc = "low_gallop_right"]
        TookLeft(m1, count1) ==
            IF count1 # 0 /\ PtrLen(m1.loc.runs[1]) <= 1 THEN MergeLowAfter(m1)
            ELSE TookRight(CopyPrefix(m1, 2, 1, TRUE))
        Counted(m0, count1) ==
            TookLeft(IF count1 # 0 THEN CopyPrefix(m0, 1, count1, TRUE) ELSE m0, count1)
        Searched(count1) ==
            IF count1 = PANIC THEN AssertFail(m)
            ELSE Counted([m EXCEPT !.loc.count1 = count1], count1)
    IN  IF ~(PtrLen(m.loc.runs[1]) > 1) \/ IsEmpty(m.loc.runs[2]) THEN AssertFail(m)
        ELSE Searched(Gallop(FALSE, AtStart(m, 2), AsSlice(m, m.loc.runs[1]), 0))

\* second half: gallop in the right run, then reward galloping
MergeLowGallopRight(m) ==
    LET TookLeft(m2) ==
            IF PtrLen(m2.loc.runs[1]) = 1 THEN MergeLowAfter(m2)
            ELSE MergeLowGallopHead([m2 EXCEPT !.loc.min_gallop = Max(@ - 1, 0)])
        TookRight(m1, count2) ==
            IF count2 # 0 /\ IsEmpty(m1.loc.runs[2]) THEN MergeLowAfter(m1)
            ELSE TookLeft(CopyPrefix(m1, 1, 1, TRUE))
        Counted(m0, count2) ==
            TookRight(IF count2 # 0 THEN CopyPrefix(m0, 2, count2, FALSE) ELSE m0, count2)
        Searched(count2) ==
            IF count2 = PANIC THEN AssertFail(m)
            ELSE Counted([m EXCEPT !.loc.count2 = count2], count2)
    IN  Searched(Gallop(TRUE, AtStart(m, 1), AsSlice(m, m.loc.runs[2]), 0))

-----------------------------------------------------------------------------
(* Galloping::merge_high (two_way.rs).  Run 1 is left (in the slice), run 2 *)
(* is right (in the buffer).                                                 *)

MergeHighAfter(m) ==
    LET m0 == [m EXCEPT !.loc.min_gallop = Max(@, 1)]
    IN  IF PtrLen(m0.loc.runs[2]) = 1
        THEN IF IsEmpty(m0.loc.runs[1]) THEN AssertFail(m0)
             ELSE Disarm(CopySuffix(CopySuffix(m0, 1, PtrLen(m0.loc.runs[1]), FALSE),
                                    2, 1, TRUE))
        ELSE IF IsEmpty(m0.loc.runs[2]) \/ ~IsEmpty(m0.loc.runs[1])
             THEN AssertFail(m0)
             ELSE Disarm(CopySuffix(m0, 2, PtrLen(m0.loc.runs[2]), TRUE))

RECURSIVE MergeHighGallopHead(_)
MergeHighOneHead(m) ==
    IF BitOr(m.loc.count1, m.loc.count2) < m.loc.min_gallop
    THEN [m EXCEPT !.pc = "high_one"]
    ELSE MergeHighGallopHead(m)

MergeHighGallopHead(m) ==
    IF m.loc.count1 >= cfg.MIN_GALLOP \/ m.loc.count2 >= cfg.MIN_GALLOP
    THEN [m EXCEPT !.pc = "high_gallop_left"]
    ELSE MergeHighOneHead([m EXCEPT !.loc.min_gallop = @ + 2,
                                    !.loc.count1 = 0, !.loc.count2 = 0])

MergeHighEntry(m, lo, hi, run_length) ==
    IF ~(Len(m.buffer) >= (hi - lo) - run_length) THEN Panic(m)
    ELSE IF ~(run_length \in 1 .. (hi - lo) - 1) THEN Panic(m)
    ELSE LET g == NewGuard(CopyToBuffer(m, lo + run_length, (hi - lo) - run_length),
                           <<Ptr("slice", lo, lo + run_length),
                             Ptr("buffer", 0, (hi - lo) - run_length)>>,
                           Ptr("slice", lo, hi))
             m1 == CopySuffix(g, 1, 1, TRUE)
         IN  IF IsEmpty(m1.loc.runs[1])
             THEN Disarm(CopySuffix(m1, 2, PtrLen(m1.loc.runs[2]), TRUE))
             ELSE IF PtrLen(m1.loc.runs[2]) = 1
             THEN Disarm(CopySuffix(CopySuffix(m1, 1, PtrLen(m1.loc.runs[1]), FALSE),
                                    2, 1, TRUE))
             ELSE MergeHighOneHead([m1 EXCEPT !.loc.count1 = 0, !.loc.count2 = 0])

MergeHighOne(m) ==
    IF ~(PtrLen(m.loc.runs[2]) > 1) \/ IsEmpty(m.loc.runs[1]) THEN AssertFail(m)
    ELSE IF Lt(AtLast(m, 2), AtLast(m, 1))
    THEN LET m1 == [CopySuffix(m, 1, 1, TRUE) EXCEPT !.loc.count1 = @ + 1,
                                                    !.loc.count2 = 0]
         IN  IF IsEmpty(m1.loc.runs[1]) THEN MergeHighAfter(m1)
             ELSE MergeHighOneHead(m1)
    ELSE LET m1 == [CopySuffix(m, 2, 1, TRUE) EXCEPT !.loc.count1 = 0,
                                                    !.loc.count2 = @ + 1]
         IN  IF PtrLen(m1.loc.runs[2]) = 1 THEN MergeHighAfter(m1)
             ELSE MergeHighOneHead(m1)

MergeHighGallopLeft(m) ==
    LET left_len == PtrLen(m.loc.runs[1])
        TookRight(m2) ==
            IF PtrLen(m2.loc.runs[2]) = 1 THEN MergeHighAfter(m2)
            ELSE [m2 EXCEPT !.pc = "high_gallop_right"]
        TookLeft(m1, count1) ==
            IF count1 # 0 /\ IsEmpty(m1.loc.runs[1]) THEN MergeHighAfter(m1)
            ELSE TookRight(CopySuffix(m1, 2, 1, TRUE))
        Counted(m0, count1) ==
            TookLeft(IF count1 # 0 THEN CopySuffix(m0, 1, count1, FALSE) ELSE m0, count1)
        Searched(found) ==
            IF found = PANIC THEN AssertFail(m)
            ELSE Counted([m EXCEPT !.loc.count1 = left_len - found], left_len - found)
    IN  IF ~(PtrLen(m.loc.runs[2]) > 1) \/ IsEmpty(m.loc.runs[1]) THEN AssertFail(m)
        ELSE Searched(Gallop(FALSE, AtLast(m, 2), AsSlice(m, m.loc.runs[1]),
                             left_len - 1))

MergeHighGallopRight(m) ==
    LET right_len == PtrLen(m.loc.runs[2])
        TookLeft(m2) ==
            IF IsEmpty(m2.loc.runs[1]) THEN MergeHighAfter(m2)
            ELSE MergeHighGallopHead([m2 EXCEPT !.loc.min_gallop = Max(@ - 1, 0)])
        TookRight(m1, count2) ==
            IF count2 # 0 /\ PtrLen(m1.loc.runs[2]) <= 1 THEN MergeHighAfter(m1)
            ELSE TookLeft(CopySuffix(m1, 1, 1, TRUE))
        Counted(m0, count2) ==
            TookRight(IF count2 # 0 THEN CopySuffix(m0, 2, count2, TRUE) ELSE m0, count2)
        Searched(found) ==
            IF found = PANIC THEN AssertFail(m)
            ELSE Counted([m EXCEPT !.loc.count2 = right_len - found], right_len - found)
    IN  Searched(Gallop(TRUE, AtLast(m, 1), AsSlice(m, m.loc.runs[2]), right_len - 1))

-----------------------------------------------------------------------------
(* Galloping::merge (two_way.rs) *)

\* Galloping::merge that hands the whole slice to merge_low or merge_high
GallopingEntry_untrimmed(m) ==
    LET n == Len(m.slice)
        run_length == m.loc.run_length
        m0 == [m EXCEPT !.loc = [min_gallop |-> cfg.MIN_GALLOP,
                                 start |-> 0, end |-> n,
                                 count1 |-> 0, count2 |-> 0] @@ m.loc]
    IN  IF n < 2 \/ run_length = 0 THEN Return(m)
        ELSE IF run_length >= n THEN Panic(m)
        ELSE IF ~Gt(m.slice[run_length], m.slice[run_length + 1]) THEN Return(m)
        ELSE IF run_length <= n - run_length
        THEN MergeLowEntry(m0, 0, n, run_length)
        ELSE MergeHighEntry(m0, 0, n, run_length)

\* from the call to the first comparison of merge_low or merge_high
GallopingEntry(m) ==
    LET n == Len(m.slice)
        run_length == m.loc.run_length
        Trimmed(m0, start, end) ==
            IF end = run_length THEN Return(m)
            ELSE IF run_length - start <= end - run_length
            THEN MergeLowEntry(m0, start, end, run_length - start)
            ELSE MergeHighEntry(m0, start, end, run_length - start)
        EndFound(start, found) ==
            IF found = PANIC THEN Panic(m)
            ELSE Trimmed([m EXCEPT !.loc = [min_gallop |-> cfg.MIN_GALLOP,
                                            start |-> start,
                                            end |-> found + run_length,
                                            count1 |-> 0, count2 |-> 0] @@ m.loc],
                         start, found + run_length)
        StartFound(start) ==
            IF start = PANIC THEN Panic(m)
            ELSE IF start = run_length THEN Return(m)
            ELSE EndFound(start, Gallop(TRUE, m.slice[run_length],
                                        Sub(m.slice, run_length, n),
                                        n - run_length - 1))
    IN  IF n < 2 \/ run_length = 0 THEN Return(m)
        ELSE IF run_length >= n THEN Panic(m)
        ELSE StartFound(Gallop(FALSE, m.slice[run_length + 1],
                               Sub(m.slice, 0, run_length), 0))

-----------------------------------------------------------------------------
(* TournamentTree::merge and tournament_tree_merge (multi_way.rs) *)

RECURSIVE SumTo(_, _)
SumTo(lengths, i) == IF i = 0 THEN 0 ELSE lengths[i] + SumTo(lengths, i - 1)

\* the runs built by std::array::from_fn: one per run length, then the
\* remainder of the buffer, then empty runs
TournamentRuns(K, run_lengths, n) ==
    LET run_end(i) == IF i <= Len(run_lengths) THEN SumTo(run_lengths, i) ELSE n
    IN  [i \in 1 .. K |-> Ptr("buffer", IF i = 1 THEN 0 ELSE run_end(i - 1), run_end(i))]

\* runs.swap(i, k) in place of the rotation
RotateLeft_swap(runs, i, k) ==
    [j \in 1 .. Len(runs) |->
        IF j = i THEN runs[k] ELSE IF j = k THEN runs[i] ELSE runs[j]]

\* runs[i..k].rotate_left(1), i and k counted from 1 and inclusive
RotateLeft(runs, i, k) ==
    [j \in 1 .. Len(runs) |->
        IF j >= i /\ j < k THEN runs[j + 1] ELSE IF j = k THEN runs[i] ELSE runs[j]]

\* tournament_tree_merge for K = loc.k, up to the next selection
RECURSIVE TournamentLoop(_)
TournamentLoop(m) ==
    LET k == m.loc.k
        runs == m.loc.runs
        empty == {i \in 1 .. k : IsEmpty(runs[i])}
    IN  IF k = 1 THEN Disarm(CopyPrefix(m, 1, PtrLen(runs[1]), TRUE))
        ELSE IF empty # {}
        THEN LET first == CHOOSE i \in empty : \A j \in empty : i <= j
             IN  TournamentLoop([m EXCEPT !.loc.runs = RotateLeft(runs, first, k),
                                          !.loc.k = k - 1])
        ELSE LET lens == {PtrLen(runs[i]) : i \in 1 .. k}
             IN  [m EXCEPT !.pc = "tournament_select",
                           !.loc.min_length = CHOOSE l \in lens : \A x \in lens : l <= x]

\* from the call to the first selection
TournamentEntry(m) ==
    LET n == Len(m.slice)
        run_lengths == m.loc.run_lengths
    IN  IF n = 0 THEN Return(m)
        ELSE IF ~(Len(m.buffer) >= n) THEN Panic(m)
        ELSE IF ~(SumTo(run_lengths, Len(run_lengths)) <= n) THEN Panic(m)
        ELSE LET g == NewGuard(CopyToBuffer(m, 0, n),
                               TournamentRuns(cfg.K, run_lengths, n),
                               Ptr("slice", 0, n))
             IN  TournamentLoop([g EXCEPT !.loc = [k |-> cfg.K, min_length |-> 0]
                                                  @@ g.loc])

\* one comparison of min_by_key, keeping the later run on ties
MinByKeyStep_last_on_ties(m, best, i) ==
    IF Ge(AtStart(m, best), AtStart(m, i)) THEN i ELSE best

\* one comparison of min_by_key: the earlier run is kept unless it is greater
MinByKeyStep(m, best, i) ==
    IF Gt(AtStart(m, best), AtStart(m, i)) THEN i ELSE best

\* runs.iter_mut().take(k).min_by_key(|run| &*run.start())
RECURSIVE MinByKey(_, _, _)
MinByKey(m, best, i) ==
    IF i > m.loc.k THEN best ELSE MinByKey(m, MinByKeyStep(m, best, i), i + 1)

\* one iteration of `for _ in 0..min_length`
TournamentSelect(m) ==
    LET m1 == [CopyPrefix(m, MinByKey(m, 1, 2), 1, TRUE) EXCEPT !.loc.min_length = @ - 1]
    IN  IF m1.loc.min_length = 0 THEN TournamentLoop(m1) ELSE m1

-----------------------------------------------------------------------------
(* A merge as a machine: from its call to its return or its panic *)

MergeEntry(m) ==
    CASE cfg.M = "CopyBoth" -> CopyBothEntry(m)
      [] cfg.M = "Galloping" -> GallopingEntry(m)
      [] cfg.M = "TournamentTree" -> TournamentEntry(m)

\* the step at a comparison point
MergeStep(m) ==
    CASE m.pc = "merge_call" -> MergeEntry(m)
      [] m.pc = "copy_both_compare" -> CopyBothCompare(m)
      [] m.pc = "low_one" -> MergeLowOne(m)
      [] m.pc = "low_gallop_left" -> MergeLowGallopLeft(m)
      [] m.pc = "low_gallop_right" -> MergeLowGallopRight(m)
      [] m.pc = "high_one" -> MergeHighOne(m)
      [] m.pc = "high_gallop_left" -> MergeHighGallopLeft(m)
      [] m.pc = "high_gallop_right" -> MergeHighGallopRight(m)
      [] m.pc = "tournament_select" -> TournamentSelect(m)

ComparisonPoints ==
    {"copy_both_compare", "low_one", "low_gallop_left", "low_gallop_right",
     "high_one", "high_gallop_left", "high_gallop_right", "tournament_select"}

RECURSIVE RunMerge(_)
RunMerge(m) ==
    IF m.pc \in {"returned", "panicked"} THEN m ELSE RunMerge(MergeStep(m))

-----------------------------------------------------------------------------
(* A sort under way is a record m = [pc, slice, buffer, loc] as well.  The  *)
(* merges it calls run from call to return.                                  *)

\* the locals of a sort with the call M::merge(&mut slice[lo..hi], args, ..)
\* added to the calls it has made so far (loc.merges, kept by the sorts that
\* run as a loop)
Logged(l, lo, hi, args) ==
    IF "merges" \in DOMAIN l THEN [l EXCEPT !.merges = Append(@, <<lo, hi, args>>)]
    ELSE l

\* M::merge(&mut slice[lo..hi], args, buffer): the sort after the call, with
\* pc = "panicked" when the range is out of bounds, the merge panics, one of
\* its debug assertions fails or it runs into undefined behaviour
MergeRange(m, lo, hi, args) ==
    LET Failed(r) == /\ "ub" \in DOMAIN r.loc
                     /\ r.loc.ub \/ r.loc.assert_failed \/ r.loc.debug_assert_failed
        Merged(r) == [m EXCEPT !.slice = Splice(m.slice, lo, r.slice),
                               !.buffer = r.buffer,
                               !.loc = Logged(m.loc, lo, hi, args),
                               !.pc = IF r.pc = "returned" /\ ~Failed(r) THEN m.pc
                                      ELSE "panicked"]
    IN  IF lo > hi \/ hi > Len(m.slice) THEN [m EXCEPT !.pc = "panicked"]
        ELSE Merged(RunMerge([pc |-> "merge_call", slice |-> Sub(m.slice, lo, hi),
                              buffer |-> m.buffer, loc |-> args]))

-----------------------------------------------------------------------------
(* InsertionSort (insertionsort.rs) *)

\* slice.swap(a, b)
Swap(s, a, b) ==
    [i \in 1 .. Len(s) |-> IF i = a + 1 THEN s[b + 1] ELSE IF i = b + 1 THEN s[a + 1]
                           ELSE s[i]]

\* the inner loop swapping past equal elements as well
RECURSIVE SwapDown_past_equal(_, _)
SwapDown_past_equal(s, j) ==
    IF j >= 0 /\ Le(s[j + 2], s[j + 1]) THEN SwapDown_past_equal(Swap(s, j + 1, j), j - 1)
    ELSE s

\* the inner loop of insertion_sort_with_partition: for j in (0..=j).rev()
RECURSIVE SwapDown(_, _)
SwapDown(s, j) ==
    IF j >= 0 /\ Lt(s[j + 2], s[j + 1]) THEN SwapDown(Swap(s, j + 1, j), j - 1) ELSE s

\* the place of slice[i] in slice[..i], before the elements equal to it
InsertionPoint_before_equal(s, i) == PartitionPoint(Sub(s, 0, i), "gt", s[i + 1])

\* slice[..i].partition_point(|x| x <= &slice[i])
InsertionPoint(s, i) == PartitionPoint(Sub(s, 0, i), "ge", s[i + 1])

\* for p in (j..=p).rev() { slice.swap(p, p + 1) }
RECURSIVE SwapsDownTo(_, _, _)
SwapsDownTo(s, j, p) == IF p < j THEN s ELSE SwapsDownTo(Swap(s, p, p + 1), j, p - 1)

\* the outer loop of either insertion sort, from index i on
RECURSIVE InsertFrom(_, _, _)
InsertFrom(s, i, binary_search) ==
    IF i >= Len(s) THEN s
    ELSE InsertFrom(IF binary_search
                    THEN SwapsDownTo(s, InsertionPoint(s, i), i - 1)
                    ELSE SwapDown(s, i - 1),
                    i + 1, binary_search)

\* the sort without its early return and with a split point that has to be
\* an index of the slice
InsertionSort_split_point_inside(BINARY, s, split_point) ==
    IF ~(split_point \in 0 .. Len(s) - 1) THEN [slice |-> s, ok |-> FALSE]
    ELSE [slice |-> InsertFrom(s, split_point, ~BINARY), ok |-> TRUE]

\* InsertionSort::<BINARY>::sort(slice, split_point): the slice on exit, ok
\* unless the assert! fails.  BINARY selects insertion_sort_with_partition,
\* its absence the binary insertion sort.
InsertionSort(BINARY, s, split_point) ==
    IF Len(s) < 2 THEN [slice |-> s, ok |-> TRUE]
    ELSE IF ~(split_point \in 0 .. Len(s)) THEN [slice |-> s, ok |-> FALSE]
    ELSE [slice |-> InsertFrom(s, split_point, ~BINARY), ok |-> TRUE]

-----------------------------------------------------------------------------
(* Runs of the power sorts (powersort.rs) *)

\* merging::weakly_increasing_or_strictly_decreasing_index: the end of the
\* longest weakly increasing prefix or, when the slice starts by falling, of
\* the longest strictly decreasing one
weakly_increasing_or_strictly_decreasing_index(s) ==
    IF Len(s) >= 2 /\ Gt(s[1], s[2])
    THEN <<strictly_decreasing_prefix_index(s), TRUE>>
    ELSE <<weakly_increasing_prefix_index(s), FALSE>>

\* extend_run that finds a strictly decreasing run and leaves it as it is
extend_run_without_reverse(s) ==
    [slice |-> s,
     result |-> IF cfg.ONLY_INCREASING_RUNS THEN weakly_increasing_prefix_index(s)
                ELSE weakly_increasing_or_strictly_decreasing_index(s)[1]]

\* extend_run: the slice on exit and the index returned
extend_run(s) ==
    LET Found(found) ==
            [slice |-> IF found[2] THEN Splice(s, 0, Reverse(Sub(s, 0, found[1])))
                       ELSE s,
             result |-> found[1]]
    IN  IF cfg.ONLY_INCREASING_RUNS
        THEN [slice |-> s, result |-> weakly_increasing_prefix_index(s)]
        ELSE Found(weakly_increasing_or_strictly_decreasing_index(s))

\* next_run(slice, start): the slice on exit and the run returned, ok unless
\* the fallback sort panics.  The end of `run` is the index extend_run
\* returns, which counts from start.
next_run(s, start) ==
    LET end == Min(Len(s), start + cfg.MIN_RUN_LENGTH)
        Sorted(s1, sorted) ==
            [slice |-> Splice(s1, start, sorted.slice), run |-> Run(start, end),
             ok |-> sorted.ok]
        Found(s1, run) ==
            IF RunLen(run) < cfg.MIN_RUN_LENGTH
            THEN Sorted(s1, InsertionSort(cfg.BINARY, Sub(s1, start, end), RunLen(run)))
            ELSE [slice |-> s1, run |-> run, ok |-> TRUE]
        Extended(extended) ==
            Found(Splice(s, start, extended.slice), Run(start, extended.result))
    IN  Extended(extend_run(Sub(s, start, Len(s))))

-----------------------------------------------------------------------------
(* Run stacks (powersort.rs).  A stack is [kind, slots, top, entries,       *)
(* capacity, ok]: Stack uses slots (one per power, indexed from 1 for power *)
(* 0) and top, PowerIndexedStack uses entries; ok is FALSE once an assert!  *)
(* of the stack has failed.                                                  *)

NoRun == Run(-1, -1)

\* RunStack::new(capacity)
StackNew(kind, capacity) ==
    [kind |-> kind, slots |-> [i \in 1 .. capacity |-> NoRun], top |-> 0,
     entries |-> <<>>, capacity |-> capacity, ok |-> TRUE, popped |-> <<>>]

\* RunStack::top_power
TopPower(st) ==
    IF st.kind = "Stack" THEN st.top
    ELSE IF st.entries = <<>> THEN 0 ELSE st.entries[Len(st.entries)][1]

\* RunStack::push(run, power)
Push(st, run, power) ==
    IF st.kind = "Stack"
    THEN IF power >= st.top /\ power < st.capacity /\ st.slots[power + 1] = NoRun
         THEN [st EXCEPT !.slots[power + 1] = run, !.top = power]
         ELSE [st EXCEPT !.ok = FALSE]
    ELSE IF power >= TopPower(st) /\ Len(st.entries) < st.capacity
         THEN [st EXCEPT !.entries = Append(@, <<power, run>>)]
         ELSE [st EXCEPT !.ok = FALSE]

\* the runs of the slots taken from `power` up to power i
RECURSIVE TakeSlots_ascending(_, _, _)
TakeSlots_ascending(st, i, power) ==
    IF i < power THEN <<>>
    ELSE TakeSlots_ascending(st, i - 1, power)
         \o (IF st.slots[i + 1] = NoRun THEN <<>> ELSE <<<<i, st.slots[i + 1]>>>>)

\* the runs Stack::pop_runs yields, from power i down to `power`
RECURSIVE TakeSlots(_, _, _)
TakeSlots(st, i, power) ==
    IF i < power THEN <<>>
    ELSE (IF st.slots[i + 1] = NoRun THEN <<>> ELSE <<<<i, st.slots[i + 1]>>>>)
         \o TakeSlots(st, i - 1, power)

\* the entries PowerIndexedStack::pop_runs yields: those on top with at
\* least `power`
RECURSIVE TakeEntries(_, _)
TakeEntries(entries, power) ==
    IF entries # <<>> /\ entries[Len(entries)][1] >= power
    THEN <<entries[Len(entries)]>>
         \o TakeEntries(SubSeq(entries, 1, Len(entries) - 1), power)
    ELSE <<>>

\* RunStack::pop_runs(power), iterated to its end: the stack left, with the
\* pairs (power, run) it yielded in st.popped
PopRuns(st, power) ==
    IF ~(power <= TopPower(st)) THEN [st EXCEPT !.ok = FALSE]
    ELSE IF st.kind = "Stack"
    THEN [st EXCEPT !.popped = TakeSlots(st, st.top, power),
                    !.slots = [i \in 1 .. st.capacity |->
                                  IF i - 1 >= power /\ i - 1 <= st.top THEN NoRun
                                  ELSE st.slots[i]],
                    !.top = power]
    ELSE LET taken == TakeEntries(st.entries, power)
         IN  [st EXCEPT !.popped = taken,
                        !.entries = SubSeq(@, 1, Len(@) - Len(taken))]

-----------------------------------------------------------------------------
(* PowerSort (powersort.rs) *)

\* the node power of a boundary taken to be that of the root
SortNodePower_of_root(n, run_a, run_b) ==
    1

\* the node power counted one too high
SortNodePower_one_more(n, run_a, run_b) ==
    NodePower("MostSignificantSetBit", cfg.K, n, run_a, run_b, TRUE) + 1

\* the node power a sort computes, with the overflow checks of the test
\* profile
SortNodePower(n, run_a, run_b) ==
    NodePower("MostSignificantSetBit", cfg.K, n, run_a, run_b, TRUE)

\* the head of the while loop of powersort
PowerSortLoop(m) ==
    [m EXCEPT !.pc = IF m.loc.run_a.end # Len(m.slice) THEN "powersort_loop"
                     ELSE "powersort_collapse"]

\* PowerSort::sort up to the head of the while loop of powersort
PowerSortEntry(m) ==
    LET n == Len(m.slice)
        kind == IF cfg.USE_POWER_INDEXED_STACK THEN "PowerIndexedStack" ELSE "Stack"
        Started(first) ==
            IF ~first.ok THEN [m EXCEPT !.pc = "panicked"]
            ELSE PowerSortLoop([m EXCEPT !.slice = first.slice,
                                         !.buffer = UninitBuffer(n),
                                         !.loc = [stack |-> StackNew(kind, Ilog(n, 2) + 2),
                                                  run_a |-> first.run,
                                                  merges |-> <<>>]])
    IN  IF n < 2 THEN [m EXCEPT !.pc = "returned"]
        ELSE Started(next_run(m.slice, 0))

\* the popped runs merged with run_a left where it starts
RECURSIVE PowerSortMerges_start_kept(_, _)
PowerSortMerges_start_kept(m, popped) ==
    LET run == popped[1][2]
        run_a == Run(run.start, m.loc.run_a.end)
    IN  IF popped = <<>> \/ m.pc = "panicked" THEN m
        ELSE PowerSortMerges_start_kept(MergeRange(m, run_a.start, run_a.end,
                                                   [run_length |-> RunLen(run)]),
                                        Tail(popped))

\* for (_, run) in stack.pop_runs(node_power): grow run_a over run and merge
RECURSIVE PowerSortMerges(_, _)
PowerSortMerges(m, popped) ==
    LET run == popped[1][2]
        run_a == Run(run.start, m.loc.run_a.end)
        \* debug_assert!(slice[run_a.clone()].is_sorted())
        Merged(m1) ==
            IF m1.pc # "panicked" /\ ~IsSorted(Sub(m1.slice, run_a.start, run_a.end))
            THEN [m1 EXCEPT !.pc = "panicked"]
            ELSE m1
    IN  IF popped = <<>> \/ m.pc = "panicked" THEN m
        ELSE PowerSortMerges(Merged(MergeRange([m EXCEPT !.loc.run_a = run_a],
                                               run_a.start, run_a.end,
                                               [run_length |-> RunLen(run)])),
                             Tail(popped))

\* the rest of an iteration of the while loop of powersort, from the node
\* power of run_a and run_b on
PowerSortPowered(m, m1, run_b, node_power) ==
    LET top_power == TopPower(m.loc.stack)
        \* stack.push(run_a, node_power); run_a = run_b
        Pushed(m2, pushed) ==
            IF ~pushed.ok THEN [m2 EXCEPT !.pc = "panicked"]
            ELSE PowerSortLoop([m2 EXCEPT !.loc.stack = pushed, !.loc.run_a = run_b])
        Merged(m2) ==
            IF m2.pc = "panicked" THEN m2
            ELSE Pushed(m2, Push(m2.loc.stack, m2.loc.run_a, node_power))
        st == PopRuns(m.loc.stack, node_power)
    IN  IF node_power = PANIC \/ node_power = top_power
        THEN [m1 EXCEPT !.pc = "panicked"]
        \* if node_power < stack.top_power() { for ... in stack.pop_runs(node_power) }
        ELSE Merged(IF ~(node_power < top_power) THEN m1
                    ELSE IF ~st.ok THEN [m1 EXCEPT !.pc = "panicked"]
                    ELSE PowerSortMerges([m1 EXCEPT !.loc.stack = st], st.popped))

\* let run_b = next_run(slice, run_a.end); node_power(n, run_a, run_b)
PowerSortFound(m, next) ==
    IF ~next.ok \/ m.loc.run_a.end # next.run.start
    THEN [m EXCEPT !.slice = next.slice, !.pc = "panicked"]
    ELSE PowerSortPowered(m, [m EXCEPT !.slice = next.slice], next.run,
                          SortNodePower(Len(m.slice), m.loc.run_a, next.run))

\* one iteration of the while loop of powersort
PowerSortIteration(m) == PowerSortFound(m, next_run(m.slice, m.loc.run_a.end))

\* the popped runs merged from the bottom of the stack up
RECURSIVE PowerSortFinalMerges_bottom_up(_, _)
PowerSortFinalMerges_bottom_up(m, popped) ==
    IF popped = <<>> \/ m.pc = "panicked" THEN m
    ELSE PowerSortFinalMerges_bottom_up(
             MergeRange(m, popped[Len(popped)][2].start, Len(m.slice),
                        [run_length |-> RunLen(popped[Len(popped)][2])]),
             SubSeq(popped, 1, Len(popped) - 1))

\* for (_, run) in stack.pop_runs(0): merge run with all that follows it
RECURSIVE PowerSortFinalMerges(_, _)
PowerSortFinalMerges(m, popped) ==
    IF popped = <<>> \/ m.pc = "panicked" THEN m
    ELSE PowerSortFinalMerges(MergeRange(m, popped[1][2].start, Len(m.slice),
                                         [run_length |-> RunLen(popped[1][2])]),
                              Tail(popped))

\* the final collapse of powersort
PowerSortCollapse(m) ==
    LET st == PopRuns(m.loc.stack, 0)
        Merged(merged) ==
            [merged EXCEPT !.pc = IF merged.pc = "panicked" THEN "panicked"
                                  ELSE "returned"]
    IN  IF ~st.ok THEN [m EXCEPT !.pc = "panicked"]
        ELSE Merged(PowerSortFinalMerges([m EXCEPT !.loc.stack = st], st.popped))


\* powersort from the head of its while loop to its return or its panic
RECURSIVE RunPowerSort(_)
RunPowerSort(m) ==
    IF m.pc = "powersort_loop" THEN RunPowerSort(PowerSortIteration(m))
    ELSE IF m.pc = "powersort_collapse" THEN PowerSortCollapse(m)
    ELSE m

\* the sort at the head of its loop with S::new of the other RunStack
WithOtherStack(m) ==
    [m EXCEPT !.loc.stack =
         StackNew(IF @.kind = "Stack" THEN "PowerIndexedStack" ELSE "Stack", @.capacity)]

-----------------------------------------------------------------------------
(* MultiwayPowerSort (powersort.rs).  split_points holds the pending run     *)
(* lengths split_points[split_points_index..]; overflow is TRUE once         *)
(* split_points_index would fall below 0.                                    *)

NoSplitPoints == [lengths |-> <<>>, overflow |-> FALSE]

\* a split point stored behind the pending ones
AddSplitPoint_behind(sp, len) ==
    IF Len(sp.lengths) >= cfg.K THEN [sp EXCEPT !.overflow = TRUE]
    ELSE [sp EXCEPT !.lengths = @ \o <<len>>]

\* split_points_index -= 1; split_points[split_points_index] = len
AddSplitPoint(sp, len) ==
    IF Len(sp.lengths) >= cfg.K THEN [sp EXCEPT !.overflow = TRUE]
    ELSE [sp EXCEPT !.lengths = <<len>> \o @]

\* M::merge(&mut slice[run_a], &split_points[split_points_index..], buffer);
\* split_points_index = MERGE_K_RUNS
MultiwayMerge(m) ==
    LET Merged(merged) == [merged EXCEPT !.loc.split_points = NoSplitPoints]
    IN  IF m.loc.split_points.overflow THEN [m EXCEPT !.pc = "panicked"]
        ELSE Merged(MergeRange(m, m.loc.run_a.start, m.loc.run_a.end,
                               [run_lengths |-> m.loc.split_points.lengths]))

\* the head of the while loop of multiway_powersort
MultiwayLoop(m) ==
    [m EXCEPT !.pc = IF m.loc.run_a.end # Len(m.slice) THEN "multiway_loop"
                     ELSE "multiway_collapse"]

\* MultiwayPowerSort::sort up to the head of the while loop
MultiwayEntry(m) ==
    LET n == Len(m.slice)
        capacity == (cfg.K - 1) * (Ilog(n, cfg.K) + 2)
        Started(first) ==
            IF ~first.ok \/ ~IsSorted(Sub(first.slice, first.run.start, first.run.end))
            THEN [m EXCEPT !.pc = "panicked"]
            ELSE MultiwayLoop([m EXCEPT !.slice = first.slice,
                                        !.buffer = UninitBuffer(n),
                                        !.loc = [stack |-> StackNew("PowerIndexedStack",
                                                                    capacity),
                                                 run_a |-> first.run,
                                                 split_points |-> NoSplitPoints,
                                                 top_power |-> 0,
                                                 merges |-> <<>>]])
    IN  IF n < 2 THEN [m EXCEPT !.pc = "returned"]
        ELSE Started(next_run(m.slice, 0))

\* for (power, run) in stack.pop_runs(node_power): merge the batch gathered
\* when the power changes, then add run to the batch
RECURSIVE MultiwayBatches(_, _)
MultiwayBatches(m, popped) ==
    LET power == popped[1][1]
        run == popped[1][2]
        \* split_points[split_points_index] = run.len(); run_a.start = run.start
        Added(m1) ==
            [m1 EXCEPT !.loc.split_points = AddSplitPoint(@, RunLen(run)),
                       !.loc.run_a = Run(run.start, m1.loc.run_a.end)]
    IN  IF popped = <<>> \/ m.pc = "panicked" THEN m
        ELSE MultiwayBatches(
                 Added(IF m.loc.top_power # power
                       THEN [MultiwayMerge(m) EXCEPT !.loc.top_power = power]
                       ELSE m),
                 Tail(popped))

\* the rest of an iteration of the while loop of multiway_powersort, from
\* the node power of run_a and run_b on
MultiwayPowered(m, m1, run_b, node_power) ==
    LET top_power == TopPower(m.loc.stack)
        \* stack.push(run_a, node_power); run_a = run_b
        Pushed(m2, pushed) ==
            IF ~pushed.ok THEN [m2 EXCEPT !.pc = "panicked"]
            ELSE MultiwayLoop([m2 EXCEPT !.loc.stack = pushed, !.loc.run_a = run_b])
        Merged(m2) ==
            IF m2.pc = "panicked" THEN m2
            ELSE Pushed(m2, Push(m2.loc.stack, m2.loc.run_a, node_power))
        st == PopRuns(m.loc.stack, node_power)
    IN  IF node_power = PANIC THEN [m1 EXCEPT !.pc = "panicked"]
        \* if node_power < top_power { for ... in stack.pop_runs(node_power); merge }
        ELSE Merged(IF ~(node_power < top_power) THEN m1
                    ELSE IF ~st.ok THEN [m1 EXCEPT !.pc = "panicked"]
                    ELSE MultiwayMerge(MultiwayBatches([m1 EXCEPT !.loc.stack = st],
                                                       st.popped)))

\* let run_b = next_run(slice, run_a.end); debug_assert!(is_sorted);
\* node_power(n, run_a, run_b)
MultiwayFound(m, next) ==
    IF ~next.ok \/ next.run.start > next.run.end \/ next.run.end > Len(m.slice)
       \/ ~IsSorted(Sub(next.slice, next.run.start, next.run.end))
    THEN [m EXCEPT !.slice = next.slice, !.pc = "panicked"]
    ELSE MultiwayPowered(m, [m EXCEPT !.slice = next.slice,
                                      !.loc.top_power = TopPower(m.loc.stack)],
                         next.run, SortNodePower(Len(m.slice), m.loc.run_a, next.run))

\* one iteration of the while loop of multiway_powersort
MultiwayIteration(m) == MultiwayFound(m, next_run(m.slice, m.loc.run_a.end))

\* for _ in 0..MERGE_K_RUNS - 1: take the next run of `remaining`
RECURSIVE MultiwayTake(_, _)
MultiwayTake(m, count) ==
    IF count = 0 \/ m.loc.stack.popped = <<>> THEN m
    ELSE LET run == m.loc.stack.popped[1][2]
         IN  MultiwayTake(
                 [m EXCEPT !.loc.split_points = AddSplitPoint(@, RunLen(run)),
                           !.loc.run_a = Run(run.start, m.loc.run_a.end),
                           !.loc.stack.popped = Tail(@)],
                 count - 1)

\* the final merges with MERGE_K_RUNS runs taken in front of run_a
RECURSIVE MultiwayFinalMerges_k_runs(_)
MultiwayFinalMerges_k_runs(m) ==
    IF m.pc = "panicked" THEN m
    ELSE IF m.loc.run_a.start = 0 THEN [m EXCEPT !.pc = "returned"]
    ELSE IF m.loc.stack.popped = <<>> THEN [m EXCEPT !.pc = "diverged"]
    ELSE MultiwayFinalMerges_k_runs(MultiwayMerge(MultiwayTake(m, cfg.K)))

\* while run_a.start != 0: merge run_a with the next MERGE_K_RUNS - 1 runs.
\* An iteration that finds `remaining` used up changes nothing: the loop
\* would not end (pc = "diverged").
RECURSIVE MultiwayFinalMerges(_)
MultiwayFinalMerges(m) ==
    IF m.pc = "panicked" THEN m
    ELSE IF m.loc.run_a.start = 0 THEN [m EXCEPT !.pc = "returned"]
    ELSE IF m.loc.stack.popped = <<>> THEN [m EXCEPT !.pc = "diverged"]
    ELSE MultiwayFinalMerges(MultiwayMerge(MultiwayTake(m, cfg.K - 1)))

\* the final collapse of multiway_powersort
MultiwayCollapse(m) ==
    LET st == PopRuns(m.loc.stack, 0)
    IN  IF ~st.ok THEN [m EXCEPT !.pc = "panicked"]
        ELSE MultiwayFinalMerges([m EXCEPT !.loc.stack = st])

-----------------------------------------------------------------------------
(* TimSort (timsort.rs) *)

\* a pending run
TimRun(start, len) == [start |-> start, len |-> len]

\* usize bit operations of min_run_length
RECURSIVE MinRunLengthFrom(_, _)
MinRunLengthFrom(n, r) ==
    IF n >= cfg.MIN_MERGE THEN MinRunLengthFrom(n \div 2, BitOr(r, n % 2)) ELSE n + r

min_run_length(n) == MinRunLengthFrom(n, 0)

\* merge_at(slice, buffer, pending_runs, index)
merge_at(m, index) ==
    LET runs == m.loc.pending_runs
        stack_size == Len(runs)
    IN  IF ~(stack_size >= 2) \/ ~(index = stack_size - 2 \/ index = stack_size - 3)
        THEN [m EXCEPT !.pc = "panicked"]
        ELSE LET run1 == runs[index + 1]
                 run2 == runs[index + 2]
                 joined == [runs EXCEPT ![index + 1].len = run1.len + run2.len]
                 moved == IF index # stack_size - 2
                          THEN [joined EXCEPT ![index + 2] = runs[index + 3]]
                          ELSE joined
             IN  IF ~(run1.len > 0 /\ run2.len > 0)
                    \/ ~(run1.start + run1.len = run2.start)
                 THEN [m EXCEPT !.pc = "panicked"]
                 ELSE MergeRange([m EXCEPT !.loc.pending_runs =
                                               SubSeq(moved, 1, stack_size - 1)],
                                 run1.start, run1.start + run1.len + run2.len,
                                 [run_length |-> run1.len])

\* merge_collapse that looks at the three runs on top only
RECURSIVE merge_collapse_top_three(_)
merge_collapse_top_three(m) ==
    LET runs == m.loc.pending_runs
        n == Len(runs) - 2
        len(i) == runs[i + 1].len
        unbalanced == n > 0 /\ len(n - 1) <= len(n) + len(n + 1)
    IN  IF m.pc = "panicked" \/ ~(Len(runs) > 1) THEN m
        ELSE IF unbalanced \/ len(n) <= len(n + 1)
        THEN merge_collapse_top_three(
                 merge_at(m, IF unbalanced /\ len(n - 1) < len(n + 1) THEN n - 1
                             ELSE n))
        ELSE m

\* merge_collapse(slice, buffer, pending_runs)
RECURSIVE merge_collapse(_)
merge_collapse(m) ==
    LET runs == m.loc.pending_runs
        n == Len(runs) - 2
        len(i) == runs[i + 1].len
        \* the first condition of the loop body, under which n may step back
        unbalanced == \/ n > 0 /\ len(n - 1) <= len(n) + len(n + 1)
                      \/ n > 1 /\ len(n - 2) <= len(n - 1) + len(n)
    IN  IF m.pc = "panicked" \/ ~(Len(runs) > 1) THEN m
        ELSE IF unbalanced \/ len(n) <= len(n + 1)
        THEN merge_collapse(
                 merge_at(m, IF unbalanced /\ len(n - 1) < len(n + 1) THEN n - 1
                             ELSE n))
        ELSE m

\* merge_force_collapse(slice, buffer, pending_runs)
RECURSIVE merge_force_collapse(_)
merge_force_collapse(m) ==
    LET runs == m.loc.pending_runs
        n == Len(runs) - 2
    IN  IF m.pc = "panicked" \/ ~(Len(runs) > 1) THEN m
        ELSE merge_force_collapse(
                 merge_at(m, IF n > 0 /\ runs[n].len < runs[n + 2].len THEN n - 1
                             ELSE n))

\* the head of a while loop that is entered whatever n is
TimSortLoop_never_ends(m) == [m EXCEPT !.pc = "timsort_loop"]

\* the head of the while loop of timsort
TimSortLoop(m) ==
    [m EXCEPT !.pc = IF m.loc.n # 0 THEN "timsort_loop" ELSE "timsort_collapse"]

\* TimSort::sort up to the head of the while loop of timsort
TimSortEntry(m) ==
    LET m0 == [m EXCEPT !.buffer = UninitBuffer(Len(m.slice))]
        Sorted(sorted) ==
            [m0 EXCEPT !.slice = sorted.slice,
                       !.pc = IF sorted.ok THEN "returned" ELSE "panicked"]
        Counted(counted) ==
            Sorted(InsertionSort(cfg.BINARY, counted.slice, counted.result))
    IN  IF Len(m.slice) < 2 THEN [m0 EXCEPT !.pc = "returned"]
        ELSE IF Len(m.slice) < cfg.MIN_MERGE
        THEN Counted(count_run_and_make_ascending(m.slice))
        ELSE TimSortLoop([m0 EXCEPT !.loc = [pending_runs |-> <<>>,
                                             min_run |-> min_run_length(Len(m.slice)),
                                             n |-> Len(m.slice), start |-> 0,
                                             merges |-> <<>>]])

\* pending_runs.push(Run { start, len: run_length }); merge_collapse;
\* start += run_length; n -= run_length
TimSortPushed(m, r) ==
    LET start == m.loc.start
        Collapsed(m2) ==
            IF m2.pc = "panicked" THEN m2
            ELSE TimSortLoop([m2 EXCEPT !.loc.start = start + r.len,
                                        !.loc.n = m.loc.n - r.len])
    IN  IF ~r.ok THEN [m EXCEPT !.slice = r.slice, !.pc = "panicked"]
        ELSE Collapsed(
                 merge_collapse(
                     [m EXCEPT !.slice = r.slice,
                               !.loc.pending_runs = Append(@, TimRun(start, r.len))]))

\* one iteration of the while loop of timsort
TimSortIteration(m) ==
    LET start == m.loc.start
        force == Min(m.loc.n, m.loc.min_run)
        \* I::sort(&mut slice[start..start + force], run_length); run_length = force
        Forced(s1, sorted) ==
            [slice |-> Splice(s1, start, sorted.slice), len |-> force, ok |-> sorted.ok]
        Scanned(s1, run_length) ==
            IF run_length < m.loc.min_run
            THEN Forced(s1, InsertionSort(cfg.BINARY, Sub(s1, start, start + force),
                                          run_length))
            ELSE [slice |-> s1, len |-> run_length, ok |-> TRUE]
        Counted(counted) == Scanned(Splice(m.slice, start, counted.slice), counted.result)
    IN  TimSortPushed(m, Counted(count_run_and_make_ascending(
                                     Sub(m.slice, start, Len(m.slice)))))

\* the end of timsort: the two assert! and merge_force_collapse
TimSortCollapse(m) ==
    LET Collapsed(m1) ==
            [m1 EXCEPT !.pc = IF m1.pc = "panicked" \/ Len(m1.loc.pending_runs) # 1
                              THEN "panicked" ELSE "returned"]
    IN  IF m.loc.start # Len(m.slice) THEN [m EXCEPT !.pc = "panicked"]
        ELSE Collapsed(merge_force_collapse(m))

-----------------------------------------------------------------------------
(* The Sort of a PostfixSort (algorithms.rs) and the mergesorts (mergesort.rs) *)

\* <S as Sort>::sort for S = InsertionSort<BINARY>: an empty slice returns,
\* any other is sorted behind its first element
PostfixSortSort(BINARY, s) ==
    IF s = <<>> THEN [slice |-> s, ok |-> TRUE] ELSE InsertionSort(BINARY, s, 1)

\* I::sort(&mut slice[lo..hi])
SortChunk(m, lo, hi) ==
    LET Sorted(r) == [m EXCEPT !.slice = Splice(m.slice, lo, r.slice),
                               !.pc = IF r.ok THEN m.pc ELSE "panicked"]
    IN  Sorted(PostfixSortSort(cfg.BINARY, Sub(m.slice, lo, hi)))

\* if !CHECK_SORTED || slice[middle] < slice[middle - 1] { M::merge(..) } on
\* slice[lo..hi] with the run boundary at lo + middle
MergeUnlessSorted(m, lo, hi, middle) ==
    IF m.pc = "panicked" THEN m
    ELSE IF ~cfg.CHECK_SORTED \/ Lt(m.slice[lo + middle + 1], m.slice[lo + middle])
    THEN MergeRange(m, lo, hi, [run_length |-> middle])
    ELSE m

\* top_down_mergesort on slice[lo..hi]
RECURSIVE top_down_mergesort(_, _, _)
top_down_mergesort(m, lo, hi) ==
    LET middle == (hi - lo) \div 2
        Right(m1) == IF m1.pc = "panicked" THEN m1
                     ELSE top_down_mergesort(m1, lo + middle, hi)
    IN  IF hi - lo <= cfg.INSERTION_THRESHOLD THEN SortChunk(m, lo, hi)
        ELSE MergeUnlessSorted(Right(top_down_mergesort(m, lo, lo + middle)),
                               lo, hi, middle)

\* for chunk in slice.chunks_mut(INSERTION_THRESHOLD) { I::sort(chunk) }
RECURSIVE SortChunks(_, _)
SortChunks(m, start) ==
    IF start >= Len(m.slice) \/ m.pc = "panicked" THEN m
    ELSE SortChunks(SortChunk(m, start,
                              Min(start + cfg.INSERTION_THRESHOLD, Len(m.slice))),
                    start + cfg.INSERTION_THRESHOLD)

\* while start < slice.len() - merge_size: one pass over the pairs of runs
RECURSIVE MergePass(_, _, _)
MergePass(m, merge_size, start) ==
    IF ~(start < Len(m.slice) - merge_size) \/ m.pc = "panicked" THEN m
    ELSE MergePass(MergeUnlessSorted(m, start,
                                     Min(start + 2 * merge_size, Len(m.slice)),
                                     merge_size),
                   merge_size, start + 2 * merge_size)

\* while merge_size < slice.len()
RECURSIVE MergePasses(_, _)
MergePasses(m, merge_size) ==
    IF ~(merge_size < Len(m.slice)) \/ m.pc = "panicked" THEN m
    ELSE MergePasses(MergePass(m, merge_size, 0), merge_size * 2)

\* bottom_up_mergesort: nothing at all unless INSERTION_THRESHOLD > 1
bottom_up_mergesort(m) ==
    IF cfg.INSERTION_THRESHOLD > 1
    THEN MergePasses(SortChunks(m, 0), cfg.INSERTION_THRESHOLD)
    ELSE m

\* the end of a sort that is one call
Returned(m) == [m EXCEPT !.pc = IF m.pc = "panicked" THEN "panicked" ELSE "returned"]

\* TopDownMergeSort::sort
TopDownMergeSort(m) ==
    IF Len(m.slice) < 2 THEN [m EXCEPT !.pc = "returned"]
    ELSE Returned(top_down_mergesort([m EXCEPT !.buffer = UninitBuffer(Len(m.slice))],
                                     0, Len(m.slice)))

\* BottomUpMergeSort::sort
BottomUpMergeSort(m) ==
    IF Len(m.slice) < 2 THEN [m EXCEPT !.pc = "returned"]
    ELSE Returned(bottom_up_mergesort([m EXCEPT !.buffer = UninitBuffer(Len(m.slice))]))

\* <InsertionSort<BINARY> as Sort>::sort
InsertionSortSort(m) == Returned(SortChunk(m, 0, Len(m.slice)))

-----------------------------------------------------------------------------
(* Inputs *)

NoLoc == [none |-> TRUE]

KeySeqs(n) == [1 .. n -> 0 .. (MaxKey - 1)]

\* every slice of at most MaxLen elements, tagged by position
Slices == UNION {{MapIter(keys) : keys \in KeySeqs(n)} : n \in 0 .. MaxLen}

\* the run lengths of at most `parts` non-empty runs inside n elements
RECURSIVE RunLengthSeqs(_, _)
RunLengthSeqs(n, parts) ==
    IF parts = 0 THEN {<<>>}
    ELSE RunLengthSeqs(n, parts - 1)
         \cup UNION {{<<a>> \o rest : rest \in RunLengthSeqs(n - a, parts - 1)} :
                     a \in 1 .. n}

\* the sorted key sequences of length n over the keys from lo on
RECURSIVE SortedKeySeqs(_, _)
SortedKeySeqs(n, lo) ==
    IF n = 0 THEN {<<>>}
    ELSE UNION {{<<k>> \o rest : rest \in SortedKeySeqs(n - 1, k)} :
                k \in lo .. (MaxKey - 1)}

\* the key sequences made of adjacent sorted runs of the given lengths
RECURSIVE SortedRuns(_)
SortedRuns(lengths) ==
    IF lengths = <<>> THEN {<<>>}
    ELSE {run \o rest : run \in SortedKeySeqs(Head(lengths), 0),
                        rest \in SortedRuns(Tail(lengths))}

-----------------------------------------------------------------------------
(* Specification of the merging methods: one call of merge on sorted runs *)

MinGallops == {1, 2}

TournamentKs == 2 .. 8

MergeCfgs ==
    {[M |-> "CopyBoth", MIN_GALLOP |-> 7, K |-> 2]}
    \cup {[M |-> "Galloping", MIN_GALLOP |-> g, K |-> 2] : g \in MinGallops}
    \cup {[M |-> "TournamentTree", MIN_GALLOP |-> 7, K |-> k] : k \in TournamentKs}

\* the lengths of the runs of a call on n elements: the split point and the
\* rest, or the lengths of at most K - 1 runs and the remainder
MergeRunLengths(c, n) ==
    IF c.M = "TournamentTree"
    THEN {r \o <<n - SumTo(r, Len(r))>> : r \in RunLengthSeqs(n, c.K - 1)}
    ELSE {<<r, n - r>> : r \in 0 .. n - 1}

\* the arguments that describe the runs
MergeArgs(c, lengths) ==
    IF c.M = "TournamentTree"
    THEN [run_lengths |-> SubSeq(lengths, 1, Len(lengths) - 1)]
    ELSE [run_length |-> lengths[1]]

InitMerge ==
    /\ pc = "merge_call"
    /\ cfg \in MergeCfgs
    /\ \E n \in 0 .. (IF cfg.M = "TournamentTree" THEN MaxKWayLen ELSE MaxTwoWayLen) :
           \E lengths \in MergeRunLengths(cfg, n) :
               /\ loc = MergeArgs(cfg, lengths)
               /\ \E keys \in SortedRuns(lengths) : input = MapIter(keys)
    /\ slice = input
    /\ buffer \in {UninitBuffer(Len(input) + spare) :
                   spare \in (IF cfg.M = "TournamentTree" THEN {0} ELSE Spares)}

Mach == [pc |-> pc, slice |-> slice, buffer |-> buffer, loc |-> loc]

Becomes(m) ==
    /\ pc' = m.pc
    /\ slice' = m.slice
    /\ buffer' = m.buffer
    /\ loc' = m.loc
    /\ UNCHANGED <<cfg, input>>

CallMerge == pc = "merge_call" /\ Becomes(MergeEntry(Mach))

CopyBothIteration == pc = "copy_both_compare" /\ Becomes(CopyBothCompare(Mach))

LowOne == pc = "low_one" /\ Becomes(MergeLowOne(Mach))

LowGallopLeft == pc = "low_gallop_left" /\ Becomes(MergeLowGallopLeft(Mach))

LowGallopRight == pc = "low_gallop_right" /\ Becomes(MergeLowGallopRight(Mach))

HighOne == pc = "high_one" /\ Becomes(MergeHighOne(Mach))

HighGallopLeft == pc = "high_gallop_left" /\ Becomes(MergeHighGallopLeft(Mach))

HighGallopRight == pc = "high_gallop_right" /\ Becomes(MergeHighGallopRight(Mach))

TournamentIteration == pc = "tournament_select" /\ Becomes(TournamentSelect(Mach))

\* T::cmp panics at a comparison point: the stack unwinds through the guard
ComparisonPanics ==
    /\ pc \in ComparisonPoints
    /\ Becomes([Unwind(Mach) EXCEPT !.pc = "unwound"])

\* T::cmp panics in the gallops of Galloping::merge, before any guard exists
TrimPanics ==
    /\ pc = "merge_call"
    /\ cfg.M = "Galloping"
    /\ Len(slice) >= 2
    /\ loc.run_length \in 1 .. Len(slice) - 1
    /\ Becomes([Mach EXCEPT !.pc = "unwound"])

NextMerge ==
    \/ CallMerge
    \/ CopyBothIteration
    \/ LowOne
    \/ LowGallopLeft
    \/ LowGallopRight
    \/ HighOne
    \/ HighGallopLeft
    \/ HighGallopRight
    \/ TournamentIteration
    \/ ComparisonPanics
    \/ TrimPanics

SpecMerge == InitMerge /\ [][NextMerge]_vars

\* one call of Galloping::merge on two sorted runs of up to MaxGallopLen
\* elements together, with a buffer as long as the slice and no panic in
\* T::cmp
InitGalloping ==
    /\ pc = "merge_call"
    /\ cfg \in {c \in MergeCfgs : c.M = "Galloping"}
    /\ \E n \in 0 .. MaxGallopLen :
           \E lengths \in MergeRunLengths(cfg, n) :
               /\ loc = MergeArgs(cfg, lengths)
               /\ \E keys \in SortedRuns(lengths) : input = MapIter(keys)
    /\ slice = input
    /\ buffer = UninitBuffer(Len(input))

NextGalloping ==
    \/ CallMerge
    \/ LowOne
    \/ LowGallopLeft
    \/ LowGallopRight
    \/ HighOne
    \/ HighGallopLeft
    \/ HighGallopRight

SpecGalloping == InitGalloping /\ [][NextGalloping]_vars

-----------------------------------------------------------------------------
(* Specification of the galloping search: one call of Galloping::gallop on  *)
(* a sorted slice of 1 .. MaxGallopLen elements, every key and every hint   *)
(* inside the slice, in both directions                                     *)

InitGallop ==
    /\ pc = "gallop_call"
    /\ cfg \in {[LEFT |-> left] : left \in BOOLEAN}
    /\ \E n \in 1 .. MaxGallopLen :
           /\ \E keys \in SortedKeySeqs(n, 0) : slice = MapIter(keys)
           /\ \E key \in 0 .. (MaxKey - 1), hint \in 0 .. n - 1 :
                  loc = [key |-> Elem(n, key), hint |-> hint]
    /\ input = slice
    /\ buffer = <<>>

CallGallop ==
    /\ pc = "gallop_call"
    /\ pc' = "gallop_returned"
    /\ loc' = [result |-> Gallop(cfg.LEFT, loc.key, slice, loc.hint)] @@ loc
    /\ UNCHANGED <<cfg, slice, buffer, input>>

NextGallop == CallGallop

SpecGallop == InitGallop /\ [][NextGallop]_vars

-----------------------------------------------------------------------------
(* Specification of the two-way merges with the buffers and the split       *)
(* points a caller can hand them: one call of merge, no panic in T::cmp     *)

\* the elements of the left run that Galloping::merge does not skip: those
\* greater than the head of the right run
TrimmedLeft(s, run_length) ==
    IF Len(s) < 2 \/ run_length = 0 \/ run_length >= Len(s) THEN 0
    ELSE Cardinality({i \in 1 .. run_length : Gt(s[i], s[run_length + 1])})

\* the elements of the right run that Galloping::merge does not skip: those
\* less than the last of the left run
TrimmedRight(s, run_length) ==
    IF Len(s) < 2 \/ run_length = 0 \/ run_length >= Len(s) THEN 0
    ELSE Cardinality({j \in run_length + 1 .. Len(s) : Lt(s[j], s[run_length])})

\* min(L, R)
ShorterRun(s, run_length) ==
    Min(TrimmedLeft(s, run_length), TrimmedRight(s, run_length))

\* the split points of a call on n elements: CopyBoth is also called with
\* split points outside the slice
SplitPoints(c, n) ==
    IF c.M = "CopyBoth" THEN 0 .. n + 1 ELSE 0 .. Max(n - 1, 0)

\* the buffer lengths of a call: around slice.len() for CopyBoth, around the
\* shorter trimmed run (and slice.len()) for Galloping
BufferLens(c, s, run_length) ==
    IF c.M = "CopyBoth" THEN {Max(Len(s) - 1, 0), Len(s), Len(s) + 1}
    ELSE {Max(ShorterRun(s, run_length) - 1, 0), ShorterRun(s, run_length), Len(s)}

InitMergeCall ==
    /\ pc = "merge_call"
    /\ cfg \in {c \in MergeCfgs : c.M \in {"CopyBoth", "Galloping"}}
    /\ \E n \in 0 .. MaxTwoWayLen :
           \E r \in SplitPoints(cfg, n) :
               /\ loc = [run_length |-> r]
               /\ \E keys \in SortedRuns(<<Min(r, n), n - Min(r, n)>>) :
                      input = MapIter(keys)
    /\ slice = input
    /\ buffer \in {UninitBuffer(b) : b \in BufferLens(cfg, input, loc.run_length)}

NextMergeCall ==
    \/ CallMerge
    \/ CopyBothIteration
    \/ LowOne
    \/ LowGallopLeft
    \/ LowGallopRight
    \/ HighOne
    \/ HighGallopLeft
    \/ HighGallopRight

SpecMergeCall == InitMergeCall /\ [][NextMergeCall]_vars

-----------------------------------------------------------------------------
(* Specification of the sorts: one call of Sort::sort *)

\* MIN_RUN_LENGTH of the power sorts
MinRunLengths == {1, 3}

\* MIN_MERGE of TimSort
MinMerges == {2, 4, 32}

\* MERGE_K_RUNS of MultiwayPowerSort
MergeKRuns == {2, 4, 8}

\* INSERTION_THRESHOLD of the mergesorts
InsertionThresholds == {2, 3}

SortCfg(sort, M, g, K, min_run, only_increasing, indexed, min_merge, BINARY) ==
    [sort |-> sort, M |-> M, MIN_GALLOP |-> g, K |-> K, MIN_RUN_LENGTH |-> min_run,
     ONLY_INCREASING_RUNS |-> only_increasing, USE_POWER_INDEXED_STACK |-> indexed,
     MIN_MERGE |-> min_merge, BINARY |-> BINARY]

SortCfgs ==
    {SortCfg("PowerSort", "CopyBoth", 7, 2, r, o, i, 32, FALSE) :
         r \in MinRunLengths, o \in BOOLEAN, i \in BOOLEAN}
    \cup {SortCfg("MultiwayPowerSort", "TournamentTree", 7, k, r, o, TRUE, 32, FALSE) :
              k \in MergeKRuns, r \in MinRunLengths, o \in BOOLEAN}
    \cup {SortCfg("TimSort", "Galloping", g, 2, 24, FALSE, FALSE, mm, TRUE) :
              g \in MinGallops, mm \in MinMerges}

\* the sorts of SortCfgs, the mergesorts and the insertion sorts
EverySortCfgs ==
    SortCfgs
    \cup {SortCfg(sort, "CopyBoth", 7, 2, 24, FALSE, FALSE, 32, FALSE)
              @@ [INSERTION_THRESHOLD |-> t, CHECK_SORTED |-> c] :
              sort \in {"TopDownMergeSort", "BottomUpMergeSort"},
              t \in InsertionThresholds, c \in BOOLEAN}
    \cup {SortCfg("InsertionSort", "CopyBoth", 7, 2, 24, FALSE, FALSE, 32, b) :
              b \in BOOLEAN}

InitSort ==
    /\ pc = "sort_call"
    /\ cfg \in SortCfgs
    /\ input \in Slices
    /\ slice = input
    /\ buffer = <<>>
    /\ loc = NoLoc

\* the sorts that run as a loop of steps; the others are one call
LoopSorts == {"PowerSort", "MultiwayPowerSort", "TimSort"}

SortEntry(m) ==
    CASE cfg.sort = "PowerSort" -> PowerSortEntry(m)
      [] cfg.sort = "MultiwayPowerSort" -> MultiwayEntry(m)
      [] cfg.sort = "TimSort" -> TimSortEntry(m)

OneCallSort(m) ==
    CASE cfg.sort = "TopDownMergeSort" -> TopDownMergeSort(m)
      [] cfg.sort = "BottomUpMergeSort" -> BottomUpMergeSort(m)
      [] cfg.sort = "InsertionSort" -> InsertionSortSort(m)

CallSort == pc = "sort_call" /\ cfg.sort \in LoopSorts /\ Becomes(SortEntry(Mach))

CallOneCallSort ==
    pc = "sort_call" /\ cfg.sort \notin LoopSorts /\ Becomes(OneCallSort(Mach))

PowerSortStep == pc = "powersort_loop" /\ Becomes(PowerSortIteration(Mach))

PowerSortEnd == pc = "powersort_collapse" /\ Becomes(PowerSortCollapse(Mach))

MultiwayStep == pc = "multiway_loop" /\ Becomes(MultiwayIteration(Mach))

MultiwayEnd == pc = "multiway_collapse" /\ Becomes(MultiwayCollapse(Mach))

TimSortStep == pc = "timsort_loop" /\ Becomes(TimSortIteration(Mach))

TimSortEnd == pc = "timsort_collapse" /\ Becomes(TimSortCollapse(Mach))

NextSort ==
    \/ CallSort
    \/ PowerSortStep
    \/ PowerSortEnd
    \/ MultiwayStep
    \/ MultiwayEnd
    \/ TimSortStep
    \/ TimSortEnd

SpecSort == InitSort /\ [][NextSort]_vars

\* every sort, on the slices of at most MaxShortLen elements
InitEverySort ==
    /\ pc = "sort_call"
    /\ cfg \in EverySortCfgs
    /\ input \in {s \in Slices : Len(s) <= MaxShortLen}
    /\ slice = input
    /\ buffer = <<>>
    /\ loc = NoLoc

NextEverySort == NextSort \/ CallOneCallSort

SpecEverySort == InitEverySort /\ [][NextEverySort]_vars

\* the sequences of positive run lengths that add up to n
RECURSIVE RunLengthsOf(_)
RunLengthsOf(n) ==
    IF n = 0 THEN {<<>>}
    ELSE UNION {{<<a>> \o rest : rest \in RunLengthsOf(n - a)} : a \in 1 .. n}

\* the keys of a slice made of runs of the given lengths: a run repeats one
\* key, and the keys fall from run to run
RECURSIVE KeysOfRuns(_)
KeysOfRuns(lengths) ==
    IF lengths = <<>> THEN <<>>
    ELSE [i \in 1 .. Head(lengths) |-> Len(lengths)] \o KeysOfRuns(Tail(lengths))

\* MultiwayPowerSort with 4 runs to a merge, on a word of twice BITS bits,
\* which MaxRunsLen elements need
MultiwayRunsCfgs ==
    {SortCfg("MultiwayPowerSort", "TournamentTree", 7, 4, 1, o, TRUE, 32, FALSE)
         @@ [BITS |-> 2 * BITS] :
         o \in BOOLEAN}

\* MultiwayPowerSort on every slice of MaxRunsLen elements that is made of
\* such runs
InitMultiwayRuns ==
    /\ pc = "sort_call"
    /\ cfg \in MultiwayRunsCfgs
    /\ input \in {MapIter(KeysOfRuns(lengths)) : lengths \in RunLengthsOf(MaxRunsLen)}
    /\ slice = input
    /\ buffer = <<>>
    /\ loc = NoLoc

NextMultiwayRuns ==
    \/ CallSort
    \/ MultiwayStep
    \/ MultiwayEnd

SpecMultiwayRuns == InitMultiwayRuns /\ [][NextMultiwayRuns]_vars

\* the sequences of at most `parts` run lengths that add up to n in which
\* every length but the last is at least 2 and less than `below` and than
\* the one before it: such runs stay pending until the last one arrives
RECURSIVE FallingRunLengths(_, _, _)
FallingRunLengths(n, parts, below) ==
    IF n = 0 \/ parts = 0 THEN {}
    ELSE {<<n>>}
         \cup UNION {{<<a>> \o rest : rest \in FallingRunLengths(n - a, parts - 1, a)} :
                        a \in 2 .. Min(below - 1, n - 1)}

\* TimSort with the smallest MIN_MERGE, which leaves the runs as they are
TimRunsCfgs == {SortCfg("TimSort", "CopyBoth", 7, 2, 24, FALSE, FALSE, 2, TRUE)}

\* TimSort on every slice of MaxTimLen elements that is made of at most
\* MaxTimRuns runs of falling keys, the runs before the last of falling
\* length
InitTimRuns ==
    /\ pc = "sort_call"
    /\ cfg \in TimRunsCfgs
    /\ input \in {MapIter(KeysOfRuns(lengths)) :
                      lengths \in FallingRunLengths(MaxTimLen, MaxTimRuns,
                                                    MaxTimLen + 1)}
    /\ slice = input
    /\ buffer = <<>>
    /\ loc = NoLoc

NextTimRuns ==
    \/ CallSort
    \/ TimSortStep
    \/ TimSortEnd

SpecTimRuns == InitTimRuns /\ [][NextTimRuns]_vars

-----------------------------------------------------------------------------
(* Specification of the calls that have to end: one call of a sort or of a  *)
(* merge.  It states no fairness: what is asked of it is that no call can   *)
(* go on taking steps for ever, and a call that stops taking steps is at a  *)
(* pc that has no step.                                                     *)

InitTermination == InitSort \/ InitMerge

NextTermination == NextSort \/ NextMerge

SpecTermination == InitTermination /\ [][NextTermination]_vars

-----------------------------------------------------------------------------
(* Specification of the node-power methods: one call of node_power *)

NodePowerInputs ==
    {[n |-> n, run_a |-> Run(s, m), run_b |-> Run(m, e)] :
        n \in 2 .. MaxNodeN, s \in 0 .. MaxNodeN, m \in 0 .. MaxNodeN,
        e \in 0 .. MaxNodeN}

InitNodePower ==
    /\ pc = "node_power"
    /\ cfg \in {c \in [N : NodePowerMethods, K : NodePowerKs,
                      overflow_checks : BOOLEAN] : Supports(c.N, c.K)}
    /\ loc \in {l \in NodePowerInputs :
                   /\ l.run_a.start < l.run_a.end
                   /\ l.run_b.start < l.run_b.end
                   /\ l.run_b.end <= l.n
                   /\ l.n <= MAX_N(cfg.N)}
    /\ slice = <<>>
    /\ buffer = <<>>
    /\ input = <<>>

\* N::node_power(n, run_a, run_b)
CallNodePower ==
    /\ pc = "node_power"
    /\ pc' = "node_power_returned"
    /\ loc' = [n |-> loc.n, run_a |-> loc.run_a, run_b |-> loc.run_b,
               node_power |-> NodePower(cfg.N, cfg.K, loc.n, loc.run_a,
                                        loc.run_b, cfg.overflow_checks)]
    /\ UNCHANGED <<cfg, slice, buffer, input>>

NextNodePower == CallNodePower

SpecNodePower == InitNodePower /\ [][NextNodePower]_vars

-----------------------------------------------------------------------------
(* Specification of the run scanner: one call of                           *)
(* count_run_and_make_ascending                                            *)

InitScan ==
    /\ pc = "count_run"
    /\ cfg = [none |-> TRUE]
    /\ slice \in Slices
    /\ input = slice
    /\ buffer = <<>>
    /\ loc = NoLoc

CallCountRun ==
    /\ pc = "count_run"
    /\ LET r == count_run_and_make_ascending(slice)
       IN  /\ slice' = r.slice
           /\ loc' = [result |-> r.result]
    /\ pc' = "count_run_returned"
    /\ UNCHANGED <<cfg, buffer, input>>

NextScan == CallCountRun

SpecScan == InitScan /\ [][NextScan]_vars

-----------------------------------------------------------------------------
(* Specification of the suffix scanners: one call of                       *)
(* weakly_increasing_suffix_index or strictly_decreasing_suffix_index      *)

InitSuffixIndex ==
    /\ pc = "suffix_index"
    /\ cfg \in {[decreasing |-> d] : d \in BOOLEAN}
    /\ slice \in Slices
    /\ input = slice
    /\ buffer = <<>>
    /\ loc = NoLoc

CallSuffixIndex ==
    /\ pc = "suffix_index"
    /\ loc' = [result |-> IF cfg.decreasing
                          THEN strictly_decreasing_suffix_index(slice)
                          ELSE weakly_increasing_suffix_index(slice)]
    /\ pc' = "suffix_index_returned"
    /\ UNCHANGED <<cfg, slice, buffer, input>>

NextSuffixIndex == CallSuffixIndex

SpecSuffixIndex == InitSuffixIndex /\ [][NextSuffixIndex]_vars

-----------------------------------------------------------------------------
(* Properties of the merging methods *)

Occurrences(s, e) == Cardinality({i \in 1 .. Len(s) : s[i] = e})

\* s holds every element of t exactly as often as t does
IsPermutation(s, t) ==
    /\ Len(s) = Len(t)
    /\ \A i \in 1 .. Len(t) : Occurrences(s, t[i]) = Occurrences(t, t[i])

\* equal-comparing elements stand in the order of their original positions
IsStable(s) ==
    \A i, j \in 1 .. Len(s) :
        (i < j /\ Key(s[i]) = Key(s[j])) => Index(s[i]) < Index(s[j])

TwoWay == cfg.M \in {"CopyBoth", "Galloping"}

\* the call left merge_low or merge_high from the galloping loop: only there
\* are both counters non-zero
Galloped == "count1" \in DOMAIN loc /\ loc.count1 > 0 /\ loc.count2 > 0

\* some left-run element compares equal to some right-run element
TiesAcrossRuns ==
    \E i, j \in 1 .. Len(input) :
        /\ i <= loc.run_length
        /\ loc.run_length < j
        /\ Key(input[i]) = Key(input[j])

\* C5: CopyBoth::merge and Galloping::merge, called on two sorted runs with
\* 0 <= run_length < slice.len() and a buffer of at least slice.len() slots,
\* return (no assertion fails) with the slice sorted and a permutation of
\* its contents before the call.
C5_MergeSortsAndPermutes ==
    TwoWay => /\ pc # "panicked"
              /\ pc = "returned" => IsSorted(slice) /\ IsPermutation(slice, input)

\* a Galloping merge that returned from merge_high after galloping and
\* changed the slice
C5_Witness ==
    /\ pc = "returned"
    /\ cfg.M = "Galloping"
    /\ Galloped
    /\ loc.runs[2].mem = "buffer"
    /\ slice # input

\* C6: a two-way merge of two sorted runs places every left-run element
\* before every equal right-run element and keeps the order inside each
\* run, on every path (CopyBoth, merge_low, merge_high, galloping or not).
C6_MergeStable ==
    (TwoWay /\ pc = "returned") => IsStable(slice)

\* a Galloping merge that returned from merge_low after galloping, on runs
\* with a tie between them
C6_Witness ==
    /\ pc = "returned"
    /\ cfg.M = "Galloping"
    /\ Galloped
    /\ loc.runs[1].mem = "buffer"
    /\ TiesAcrossRuns
    /\ slice # input

C8_PanicKeepsElements ==
    pc = "unwound" => IsPermutation(slice, input)

\* a panic after elements were moved, with both runs still non-empty when
\* the guard was dropped
C8_Witness ==
    /\ pc = "unwound"
    /\ "runs" \in DOMAIN loc
    /\ slice # input
    /\ \E i \in 1 .. Len(input) : slice[i] # input[i] /\ Index(slice[i]) > i - 1

\* no flag of the guarded region is raised
NoFault ==
    "ub" \in DOMAIN loc => ~(loc.ub \/ loc.assert_failed \/ loc.debug_assert_failed)

C15_CopyBothAssertions ==
    (/\ cfg.M = "CopyBoth"
     /\ pc # "merge_call"
     /\ input # <<>>
     /\ loc.run_length >= Len(input) \/ Len(buffer) < Len(input)) =>
        /\ pc = "panicked"
        /\ slice = input
        /\ buffer = UninitBuffer(Len(buffer))
        /\ ~("runs" \in DOMAIN loc)

\* a call with a buffer long enough and the split point at slice.len() that
\* has panicked
C15_Witness ==
    /\ cfg.M = "CopyBoth"
    /\ pc = "panicked"
    /\ Len(input) >= 2
    /\ loc.run_length = Len(input)
    /\ Len(buffer) >= Len(input)

\* a merge holds a guard from MergingDropGuard::new to disarm or drop
Guarded == "armed" \in DOMAIN loc /\ loc.armed

\* what is left of the runs of the guard, added up
RunsLeft == SumTo([i \in 1 .. Len(loc.runs) |-> PtrLen(loc.runs[i])], Len(loc.runs))

\* while the guard is armed the runs hold as many elements as the output
\* has room for, and no copy went beyond a run or the output
GuardBalanced ==
    Guarded => (RunsLeft = PtrLen(loc.output) /\ ~loc.ub)

\* a merge that returns through disarm found the guard empty
DisarmedEmpty ==
    (pc = "returned" /\ "armed" \in DOMAIN loc) =>
        /\ ~loc.armed
        /\ GuardIsEmpty(Mach)
        /\ ~loc.debug_assert_failed

\* C23: at every step of every merge (CopyBoth, Galloping merge_low and
\* merge_high, k-way) the remaining lengths of the runs of the guard add up
\* to the remaining length of its output, never more; a merge that
\* completes has used up every run and filled the output, so
\* guard.is_empty() holds where the guard is disarmed.
C23_GuardBalanced ==
    GuardBalanced /\ DisarmedEmpty

\* a k-way merge under way with one of at least three runs used up, another
\* untouched and part of the output written
C23_Witness ==
    /\ pc = "tournament_select"
    /\ Guarded
    /\ Len(loc.runs) >= 3
    /\ \E i, j \in 1 .. Len(loc.runs) :
           /\ IsEmpty(loc.runs[i])
           /\ PtrLen(loc.runs[j]) >= 2
    /\ PtrLen(loc.output) < Len(slice)
    /\ RunsLeft >= 3

\* the first position Galloping::merge may write: the number of elements of
\* the left run that are not greater than the head of the right run
FrameStart == loc.run_length - TrimmedLeft(input, loc.run_length)

\* the position after the last one Galloping::merge may write
FrameEnd == loc.run_length + TrimmedRight(input, loc.run_length)

\* the positions before FrameStart and from FrameEnd on hold what they held
\* at the call, and the output of the guard, where every write of merge_low
\* and merge_high goes, lies between them
FrameKept ==
    /\ Len(slice) = Len(input)
    /\ \A i \in 1 .. Len(slice) :
           (i <= FrameStart \/ i > FrameEnd) => slice[i] = input[i]
    /\ "output" \in DOMAIN loc =>
           /\ loc.output.mem = "slice"
           /\ FrameStart <= loc.output.start
           /\ loc.output.end <= FrameEnd

\* nothing of the left run is greater than the head of the right run (or
\* there is no left run or no right run): the call returns with the slice
\* as it was, no guard built and no slot of the buffer written
NothingToMerge ==
    TrimmedLeft(input, loc.run_length) = 0 =>
        /\ pc = "returned"
        /\ slice = input
        /\ buffer = UninitBuffer(Len(buffer))
        /\ "output" \notin DOMAIN loc

\* C24: Galloping::merge never writes before `start` (the left-run elements
\* <= the head of the right run) nor at or after `end` (the right-run
\* elements >= the last of the left run); when every left-run element is
\* <= the head of the right run, or run_length is 0, or the slice has fewer
\* than 2 elements, it returns without moving an element and without
\* touching the buffer.
C24_GallopingFrame ==
    (cfg.M = "Galloping" /\ pc # "merge_call") => (FrameKept /\ NothingToMerge)

\* a merge that returned after moving elements, with elements in place on
\* both sides
C24_Witness ==
    /\ cfg.M = "Galloping"
    /\ pc = "returned"
    /\ slice # input
    /\ FrameStart >= 1
    /\ FrameEnd < Len(slice)
    /\ FrameEnd - FrameStart >= 4

\* a call that returned at once because the runs were in order already
C24_InOrder ==
    /\ cfg.M = "Galloping"
    /\ pc = "returned"
    /\ loc.run_length \in 2 .. Len(slice) - 2
    /\ TrimmedLeft(input, loc.run_length) = 0

\* the number of elements of the slice less than the key, and not greater
\* than the key
ElementsBelow(key) == Cardinality({i \in 1 .. Len(slice) : Lt(slice[i], key)})

ElementsUpTo(key) == Cardinality({i \in 1 .. Len(slice) : Le(slice[i], key)})

\* C25: for every sorted slice, key and hint with 0 <= hint < slice.len(),
\* gallop::<_, false> returns the number of elements <= key and
\* gallop::<_, true> the number of elements < key, whatever the hint; the
\* interval assertion and the debug equality with partition_point (which is
\* that number) never fail.
C25_GallopIsPartitionPoint ==
    pc = "gallop_returned" =>
        /\ loc.result # PANIC
        /\ loc.result = (IF cfg.LEFT THEN ElementsBelow(loc.key)
                                     ELSE ElementsUpTo(loc.key))
        /\ loc.result = PartitionPoint(slice, IF cfg.LEFT THEN "gt" ELSE "ge", loc.key)

\* a search from the middle of a slice of equal elements and others: the
\* two directions give different answers, both away from the hint
C25_Witness ==
    /\ pc = "gallop_returned"
    /\ Len(slice) = MaxGallopLen
    /\ loc.hint = 4
    /\ ElementsUpTo(loc.key) - ElementsBelow(loc.key) >= 3
    /\ \/ cfg.LEFT /\ loc.result = 1
       \/ ~cfg.LEFT /\ loc.result = MaxGallopLen - 1

\* at a selection every run among the first k has a head to read, and the
\* runs set aside are the exhausted ones
SelectsAmongNonEmpty ==
    pc = "tournament_select" =>
        /\ loc.k \in 2 .. cfg.K
        /\ \A i \in 1 .. loc.k : ~IsEmpty(loc.runs[i])
        /\ \A i \in loc.k + 1 .. cfg.K : IsEmpty(loc.runs[i])

\* the runs still in play stand in the order in which they were handed in:
\* by their place in the buffer
RunsKeepOrder ==
    pc = "tournament_select" =>
        \A i, j \in 1 .. loc.k : i < j => loc.runs[i].end <= loc.runs[j].start

\* the element a selection writes is the head of a run in play that is not
\* greater than any other head and less than the head of every run before
\* it; no head of another run moves
WinnerIsFirstMinimum ==
    (pc = "tournament_select" /\ pc' \in {"tournament_select", "returned"}) =>
        \E w \in 1 .. loc.k :
            /\ slice'[loc.output.start + 1] = AtStart(Mach, w)
            /\ \A i \in 1 .. loc.k :
                   /\ i < w => Gt(AtStart(Mach, i), AtStart(Mach, w))
                   /\ i > w => Ge(AtStart(Mach, i), AtStart(Mach, w))

\* C26: in the k-way merge an exhausted run is never selected as winner and
\* its head is never read: the winner is chosen among the non-empty runs
\* only, ties go to the run with the lowest original index, and removing an
\* exhausted run keeps the relative order of the remaining runs.
C26_WinnerAmongNonEmpty ==
    /\ [](SelectsAmongNonEmpty /\ RunsKeepOrder)
    /\ [][WinnerIsFirstMinimum]_vars

\* a selection among three runs after a run between them was exhausted and
\* removed, with a tie between the heads of the first and the last
C26_Witness ==
    /\ pc = "tournament_select"
    /\ cfg.K = 4
    /\ loc.k = 3
    /\ PtrLen(loc.output) < Len(slice)
    /\ loc.runs[4].end > loc.runs[1].start
    /\ loc.runs[4].end <= loc.runs[3].start
    /\ Key(AtStart(Mach, 1)) = Key(AtStart(Mach, 3))
    /\ Gt(AtStart(Mach, 2), AtStart(Mach, 1))

LowPcs == {"low_one", "low_gallop_left", "low_gallop_right"}

HighPcs == {"high_one", "high_gallop_left", "high_gallop_right"}

\* merge_low: the left run is in the buffer, the right run ends where the
\* output ends, and the gap between the output cursor and the right run is
\* as long as what is left in the buffer, which is never nothing
LowCursors ==
    pc \in LowPcs =>
        /\ loc.runs[1].mem = "buffer"
        /\ loc.runs[2].mem = "slice"
        /\ loc.runs[2].end = loc.output.end
        /\ loc.runs[2].start - loc.output.start = PtrLen(loc.runs[1])
        /\ PtrLen(loc.runs[1]) >= 1

\* merge_high, the other way round
HighCursors ==
    pc \in HighPcs =>
        /\ loc.runs[1].mem = "slice"
        /\ loc.runs[2].mem = "buffer"
        /\ loc.runs[1].start = loc.output.start
        /\ loc.output.end - loc.runs[1].end = PtrLen(loc.runs[2])
        /\ PtrLen(loc.runs[2]) >= 1

\* what the in-loop assertions ask for holds at the head of every iteration,
\* and no assertion has failed
LoopAssertionsHold ==
    /\ pc # "panicked"
    /\ "assert_failed" \in DOMAIN loc => ~loc.assert_failed
    /\ pc \in LowPcs => (PtrLen(loc.runs[1]) > 1 /\ ~IsEmpty(loc.runs[2]))
    /\ pc \in HighPcs => (PtrLen(loc.runs[2]) > 1 /\ ~IsEmpty(loc.runs[1]))

\* the merge ends with an element of the buffered run: the last element of
\* the left run goes to the last slot in merge_low, the first of the right
\* run to the first slot in merge_high
BufferedRunEndsLast ==
    /\ (pc \in LowPcs /\ pc' = "returned") =>
           /\ slice'[loc.output.end] = buffer[loc.runs[1].end]
           /\ IsEmpty(loc'.runs[1]) /\ IsEmpty(loc'.runs[2])
    /\ (pc \in HighPcs /\ pc' = "returned") =>
           /\ slice'[loc.output.start + 1] = buffer[loc.runs[2].start + 1]
           /\ IsEmpty(loc'.runs[1]) /\ IsEmpty(loc'.runs[2])

C30_HighWitness ==
    /\ pc = "high_gallop_left"
    /\ PtrLen(loc.runs[2]) = 2
    /\ loc.output.end - loc.runs[1].end = 2
    /\ loc.output.end < loc.end
    /\ PtrLen(loc.runs[1]) >= 2

OneAtATime == {"low_one", "high_one"}

GallopingLeft == {"low_gallop_left", "high_gallop_left"}

GallopingRight == {"low_gallop_right", "high_gallop_right"}

\* min_gallop is never negative, and it is at least 1 when it is compared
\* with the counts and when the merge has returned
MinGallopFloors ==
    "min_gallop" \in DOMAIN loc =>
        /\ loc.min_gallop >= 0
        /\ pc \in OneAtATime \cup {"returned"} => loc.min_gallop >= 1

\* how a step of merge_low or merge_high changes min_gallop
MinGallopChange(g, g1) ==
    /\ pc \in OneAtATime =>
           \* the galloping loop is skipped when neither count has reached
           \* MIN_GALLOP, which still adds 2
           /\ pc' \in OneAtATime => g1 \in {g, g + 2}
           /\ pc' \in GallopingLeft => g1 = g
    /\ (pc \in GallopingLeft /\ pc' # "returned") =>
           pc' \in GallopingRight /\ g1 = g
    /\ pc \in GallopingRight =>
           \* an iteration that ends takes 1 off, down to 0, whatever it copied
           /\ pc' \in GallopingLeft => g1 = Max(g - 1, 0)
           /\ pc' \in OneAtATime => g1 = Max(g - 1, 0) + 2
    /\ pc' = "returned" => g1 = Max(g, 1)

MinGallopSteps ==
    /\ (pc = "merge_call" /\ pc' \in OneAtATime) => loc'.min_gallop = cfg.MIN_GALLOP
    /\ (pc \in OneAtATime \cup GallopingLeft \cup GallopingRight
        /\ pc' \in OneAtATime \cup GallopingLeft \cup GallopingRight \cup {"returned"})
           => MinGallopChange(loc.min_gallop, loc'.min_gallop)

\* C22 as the code has it: min_gallop starts at MIN_GALLOP; every iteration
\* of the galloping loop that runs to its end takes 1 off it, down to 0
\* (saturating_sub), whatever was copied; leaving the galloping loop adds 2;
\* after the loops it is raised to 1 if it is 0.  It is at least 1 whenever
\* it is compared with the counts and when the merge returns, and can be 0
\* while the merge gallops.
C22_MinGallopTuning ==
    /\ []MinGallopFloors
    /\ [][MinGallopSteps]_vars

\* C22 as stated: in every reachable state of merge_low and merge_high
\* min_gallop >= 1 (the decrement is floored at 1).
C22_MinGallopAtLeastOne ==
    "min_gallop" \in DOMAIN loc => loc.min_gallop >= 1

\* merge_low about to start an iteration of the galloping loop with
\* min_gallop at 0
C22_Witness ==
    /\ pc = "low_gallop_left"
    /\ loc.min_gallop = 0
    /\ cfg.MIN_GALLOP = 1

-----------------------------------------------------------------------------
(* Properties of the sorts *)

\* the call is over: it returned or it panicked
SortDone == pc \in {"returned", "panicked", "diverged"}

\* the input is what a stable sort makes of it
IsStableSortOfInput ==
    IsSorted(slice) /\ IsPermutation(slice, input) /\ IsStable(slice)

\* C1: PowerSort::sort, with either run stack, returns for every input with
\* the slice in non-decreasing order and holding exactly the elements it
\* held before the call.
C1_PowerSortSorts ==
    (cfg.sort = "PowerSort" /\ SortDone) =>
        pc = "returned" /\ IsSorted(slice) /\ IsPermutation(slice, input)

\* a sort of an unsorted input that has returned, its final collapse having
\* merged at least two runs of the power-indexed stack
C1_Witness ==
    /\ cfg.sort = "PowerSort"
    /\ pc = "returned"
    /\ Len(input) >= 5
    /\ ~IsSorted(input)
    /\ cfg.USE_POWER_INDEXED_STACK
    /\ cfg.MIN_RUN_LENGTH = 1
    /\ "stack" \in DOMAIN loc
    /\ Len(loc.stack.popped) >= 2

\* C2: PowerSort::sort with insertion sort and CopyBoth keeps equal elements
\* in their original order, also when a strictly decreasing run is reversed
\* and when a short run is extended by the fallback sort.
C2_PowerSortStable ==
    (cfg.sort = "PowerSort" /\ pc = "returned") => IsStable(slice)

\* a sorted input with equal elements that started with a strictly
\* decreasing run too short for MIN_RUN_LENGTH
C2_Witness ==
    /\ cfg.sort = "PowerSort"
    /\ pc = "returned"
    /\ slice # input
    /\ cfg.MIN_RUN_LENGTH = 3
    /\ ~cfg.ONLY_INCREASING_RUNS
    /\ Len(input) >= 5
    /\ Key(input[1]) > Key(input[2])
    /\ Key(input[2]) = Key(input[3])
    /\ Key(input[4]) = Key(input[1])

\* C3: MultiwayPowerSort::sort for K in {2, 4, 8} leaves the slice equal to
\* the stable sort of its input.
C3_MultiwaySorts ==
    (cfg.sort = "MultiwayPowerSort" /\ SortDone) =>
        pc = "returned" /\ IsStableSortOfInput

\* a sort with K = 4 that has returned, of an input with equal elements
\* that falls into at least four weakly increasing runs
C3_Witness ==
    /\ cfg.sort = "MultiwayPowerSort"
    /\ pc = "returned"
    /\ cfg.K = 4
    /\ cfg.MIN_RUN_LENGTH = 1
    /\ cfg.ONLY_INCREASING_RUNS
    /\ Len(input) >= 5
    /\ Cardinality({i \in 1 .. Len(input) - 1 : Key(input[i]) > Key(input[i + 1])}) >= 3
    /\ slice # input
    /\ \E i, j \in 1 .. Len(input) : i < j /\ Key(input[i]) = Key(input[j])

\* C4: TimSort::sort leaves the slice equal to the stable sort of its input,
\* for inputs shorter than MIN_MERGE and for longer ones.
C4_TimSortSorts ==
    (cfg.sort = "TimSort" /\ SortDone) => pc = "returned" /\ IsStableSortOfInput

\* a sort of an input with equal elements that went through the run stack
\* and merged its runs into one
C4_Witness ==
    /\ cfg.sort = "TimSort"
    /\ pc = "returned"
    /\ Len(input) >= cfg.MIN_MERGE
    /\ "pending_runs" \in DOMAIN loc
    /\ Len(loc.pending_runs) = 1
    /\ Len(input) >= 5
    /\ Cardinality({i \in 1 .. Len(input) - 1 : Key(input[i]) > Key(input[i + 1])}) >= 2
    /\ \E i, j \in 1 .. Len(input) : i < j /\ Key(input[i]) = Key(input[j])
    /\ slice # input

\* C11: every sort (PowerSort, MultiwayPowerSort, TimSort, the two mergesorts
\* and insertion sort) called on an empty or a one-element slice returns
\* without a panic and leaves the slice as it was.
C11_ShortSlicesReturnUnchanged ==
    (Len(input) < 2 /\ pc # "sort_call") => (pc = "returned" /\ slice = input)

\* a mergesort that has returned from a call on a single element
C11_Witness ==
    /\ cfg.sort = "BottomUpMergeSort"
    /\ Len(input) = 1
    /\ pc = "returned"

\* the call of PowerSort::sort on the input with the other run stack, run to
\* its end
OtherStackRun ==
    LET Swapped(m) == IF m.pc = "powersort_loop" \/ m.pc = "powersort_collapse"
                      THEN RunPowerSort(WithOtherStack(m))
                      ELSE m
    IN  Swapped(PowerSortEntry([pc |-> "sort_call", slice |-> input,
                                buffer |-> <<>>, loc |-> NoLoc]))

\* C13: on every input PowerSort makes with Stack and with PowerIndexedStack
\* the same merge calls (same sub-range, same split point) in the same order
\* and ends with the same slice.
C13_StacksAgree ==
    LET Agree(other) == /\ other.pc = pc
                        /\ other.loc.merges = loc.merges
                        /\ other.slice = slice
                        /\ other.loc.stack.kind # loc.stack.kind
    IN  (cfg.sort = "PowerSort" /\ SortDone /\ Len(input) >= 2) => Agree(OtherStackRun)

\* a sort with the array stack that made three merge calls or more, the
\* last pop_runs yielding more than one run
C13_Witness ==
    /\ cfg.sort = "PowerSort"
    /\ pc = "returned"
    /\ "stack" \in DOMAIN loc
    /\ loc.stack.kind = "Stack"
    /\ Len(loc.merges) >= 3
    /\ Len(loc.stack.popped) >= 2
    /\ \E i \in 1 .. Len(loc.merges) : loc.merges[i][1] > 0

\* floor(log2 n) for n >= 1
FloorLog2(n) == CHOOSE k \in 0 .. BITS : Pow(2, k) <= n /\ n < Pow(2, k + 1)

\* the powers recorded on a run stack, bottom to top
StackPowers(st) ==
    IF st.kind = "Stack"
    THEN LET Used(i) == SelectSeq([j \in 1 .. i |-> j - 1],
                                  LAMBDA q : st.slots[q + 1] # NoRun)
         IN  Used(st.capacity)
    ELSE [i \in 1 .. Len(st.entries) |-> st.entries[i][1]]

\* the runs recorded on a run stack, bottom to top
StackRuns(st) ==
    IF st.kind = "Stack"
    THEN [i \in 1 .. Len(StackPowers(st)) |-> st.slots[StackPowers(st)[i] + 1]]
    ELSE [i \in 1 .. Len(st.entries) |-> st.entries[i][2]]

\* C14: in PowerSort on n >= 2 elements every power pushed lies in
\* [1, floor(log2 n) + 1], the stack never holds more than floor(log2 n) + 2
\* runs, and no assertion of push (power < capacity and slot empty, or spare
\* capacity left) fails.
C14_StackBounds ==
    (cfg.sort = "PowerSort" /\ "stack" \in DOMAIN loc) =>
        /\ loc.stack.ok
        /\ pc # "panicked"
        /\ loc.stack.capacity = FloorLog2(Len(input)) + 2
        /\ Len(StackPowers(loc.stack)) <= FloorLog2(Len(input)) + 2
        /\ \A i \in 1 .. Len(StackPowers(loc.stack)) :
               /\ StackPowers(loc.stack)[i] >= 1
               /\ StackPowers(loc.stack)[i] <= FloorLog2(Len(input)) + 1

\* a stack of three runs at the end of the main loop, its top pushed with
\* the power floor(log2 n) + 1, the last slot of the array stack
C14_Witness ==
    /\ cfg.sort = "PowerSort"
    /\ pc = "powersort_collapse"
    /\ loc.stack.kind = "Stack"
    /\ Len(StackPowers(loc.stack)) = 3
    /\ loc.stack.top = FloorLog2(Len(input)) + 1
    /\ loc.stack.top = loc.stack.capacity - 1

\* the call is over: it returned, it panicked or a panic of T::cmp unwound it
CallDone == pc \in {"returned", "panicked", "unwound"}

\* the merge calls made by the step
NewMerges == SubSeq(loc'.merges, Len(loc.merges) + 1, Len(loc'.merges))

RECURSIVE SumOfRunLengthCounts(_)
SumOfRunLengthCounts(merges) ==
    IF merges = <<>> THEN 0
    ELSE Len(Head(merges)[3].run_lengths) + SumOfRunLengthCounts(Tail(merges))

\* an iteration of a main loop finds a non-empty run behind the prefix
\* processed so far
MainLoopProgress ==
    /\ (pc \in {"powersort_loop", "multiway_loop"} /\ pc' # "panicked") =>
           /\ loc'.run_a.start = loc.run_a.end
           /\ loc'.run_a.end > loc.run_a.end
           /\ loc'.run_a.end <= Len(slice)
    /\ (pc = "timsort_loop" /\ pc' # "panicked") =>
           /\ loc'.start > loc.start
           /\ loc'.n < loc.n
           /\ loc'.start + loc'.n = Len(slice)
           \* every merge of merge_collapse takes one run off the stack
           /\ Len(loc'.pending_runs) = Len(loc.pending_runs) + 1 - Len(NewMerges)

\* every iteration of a final collapse takes at least one run off the stack:
\* the merges made are as many as the runs (PowerSort, TimSort), or take up
\* the runs between them, at least one each (MultiwayPowerSort)
CollapseProgress ==
    /\ (pc = "powersort_collapse" /\ pc' = "returned") =>
           Len(NewMerges) = Len(StackPowers(loc.stack))
    /\ (pc = "multiway_collapse" /\ pc' = "returned") =>
           /\ SumOfRunLengthCounts(NewMerges) = Len(loc.stack.entries)
           /\ \A i \in 1 .. Len(NewMerges) :
                  Len(NewMerges[i][3].run_lengths) \in 1 .. cfg.K - 1
    /\ (pc = "timsort_collapse" /\ pc' = "returned") =>
           Len(NewMerges) = Len(loc.pending_runs) - 1

\* every iteration of a merge loop moves at least one element to the output
MergeProgress ==
    (pc \in ComparisonPoints /\ pc' # "unwound") =>
        PtrLen(loc'.output) < PtrLen(loc.output)

\* a call that is not over is at a pc from which the code goes on
RunningHasStep ==
    \/ CallDone
    \/ pc \in {"sort_call", "powersort_loop", "powersort_collapse", "multiway_loop",
               "multiway_collapse", "timsort_loop", "timsort_collapse", "merge_call"}
    \/ pc \in ComparisonPoints

\* C16: PowerSort, MultiwayPowerSort and TimSort end on every input: every run
\* found is non-empty and the processed prefix grows with every iteration
\* of the main loop, every collapse takes at least one run off the stack
\* per iteration, every merge loop moves at least one element per
\* iteration, no loop is left spinning, and no call takes steps for ever
\* without reaching its return (or its unwinding).
C16_Termination ==
    /\ [][MainLoopProgress /\ CollapseProgress /\ MergeProgress]_vars
    /\ []RunningHasStep
    /\ ([]<><<TRUE>>_vars) => <>CallDone

\* a MultiwayPowerSort that has returned after a final collapse of two
\* merges or more
C16_Witness ==
    /\ "sort" \in DOMAIN cfg
    /\ cfg.sort = "MultiwayPowerSort"
    /\ pc = "returned"
    /\ "merges" \in DOMAIN loc
    /\ Len(loc.merges) >= 2
    /\ loc.merges[Len(loc.merges)][1] = 0
    /\ loc.merges[Len(loc.merges) - 1][1] > 0
    /\ loc.merges[Len(loc.merges) - 1][2] = Len(input)

\* the node power the iteration about to start computes for the boundary
\* between run_a and the run it finds
UpcomingNodePower ==
    SortNodePower(Len(slice), loc.run_a, next_run(slice, loc.run_a.end).run)

\* C17: in the main loop of PowerSort the node power of the boundary between
\* run_a and the new run never equals stack.top_power() (the assertion holds),
\* and the powers recorded on the stack strictly increase from bottom to
\* top, the one pushed last being the top power.
C17_PowersIncrease ==
    (cfg.sort = "PowerSort" /\ "stack" \in DOMAIN loc) =>
        /\ pc # "panicked"
        /\ (pc = "powersort_loop" /\ loc.run_a.end # Len(slice)) =>
               UpcomingNodePower # TopPower(loc.stack)
        /\ \A i, j \in 1 .. Len(StackPowers(loc.stack)) :
               i < j => StackPowers(loc.stack)[i] < StackPowers(loc.stack)[j]
        /\ (pc \in {"powersort_loop", "powersort_collapse"}
               /\ StackPowers(loc.stack) # <<>>) =>
               TopPower(loc.stack) =
                   StackPowers(loc.stack)[Len(StackPowers(loc.stack))]

\* the head of an iteration that will pop: the stack holds two runs and the
\* power about to be computed is below the top power
C17_Witness ==
    /\ cfg.sort = "PowerSort"
    /\ pc = "powersort_loop"
    /\ loc.run_a.end # Len(slice)
    /\ Len(StackPowers(loc.stack)) >= 2
    /\ UpcomingNodePower < TopPower(loc.stack)
    /\ UpcomingNodePower <= StackPowers(loc.stack)[1]

\* the runs on the stack, bottom to top, followed by run_a
PendingRuns == StackRuns(loc.stack) \o <<loc.run_a>>

\* the length a merge call gives to the runs in front of the last one
FrontLen(args) ==
    IF "run_length" \in DOMAIN args THEN args.run_length
    ELSE SumTo(args.run_lengths, Len(args.run_lengths))

\* at the head of an iteration the pending runs are non-empty sorted ranges
\* that tile [0, run_a.end)
PendingRunsTile ==
    pc \in {"powersort_loop", "multiway_loop"} =>
        /\ PendingRuns[1].start = 0
        /\ \A i \in 1 .. Len(PendingRuns) :
               /\ PendingRuns[i].start < PendingRuns[i].end
               /\ PendingRuns[i].end <= Len(slice)
               /\ IsSorted(Sub(slice, PendingRuns[i].start, PendingRuns[i].end))
               /\ i < Len(PendingRuns) =>
                      PendingRuns[i].end = PendingRuns[i + 1].start

\* every merge of an iteration covers the popped runs and the accumulator:
\* it begins at a run of the stack, the runs in front of the accumulator end
\* where the accumulator began, and it ends at run_a.end
PoppedRunsMeetAccumulator ==
    (pc \in {"powersort_loop", "multiway_loop"} /\ pc' # "panicked") =>
        \A i \in 1 .. Len(NewMerges) :
            /\ NewMerges[i][2] = loc.run_a.end
            /\ NewMerges[i][1] + FrontLen(NewMerges[i][3]) =
                   (IF i = 1 THEN loc.run_a.start ELSE NewMerges[i - 1][1])
            /\ \E j \in 1 .. Len(StackRuns(loc.stack)) :
                   StackRuns(loc.stack)[j].start = NewMerges[i][1]

\* C18: at the start of every iteration of the main loops of PowerSort and
\* MultiwayPowerSort the runs on the stack, bottom to top, followed by run_a
\* are non-empty, pairwise adjacent, begin at 0 and end at run_a.end, and
\* each is a sorted sub-range of the slice; each popped run ends where the
\* accumulator run starts when it is merged with it.
C18_RunsTilePrefix ==
    /\ []PendingRunsTile
    /\ [][PoppedRunsMeetAccumulator]_vars

\* the head of an iteration of MultiwayPowerSort after one that merged popped
\* runs: the stack still holds a run and run_a does not begin at 0
C18_Witness ==
    /\ "sort" \in DOMAIN cfg
    /\ cfg.sort = "MultiwayPowerSort"
    /\ pc = "multiway_loop"
    /\ Len(loc.merges) >= 1
    /\ Len(PendingRuns) >= 2

\* the runs on a stack, top to bottom
Reversed(runs) == [i \in 1 .. Len(runs) |-> runs[Len(runs) + 1 - i]]

\* on return nothing is left pending: the RunStack is empty and run_a ends
\* the slice, or pending_runs is the one run [0, n)
NothingPending ==
    (pc = "returned" /\ cfg.sort \in {"PowerSort", "MultiwayPowerSort", "TimSort"}) =>
        /\ "stack" \in DOMAIN loc =>
               /\ StackRuns(loc.stack) = <<>>
               /\ loc.run_a.end = Len(slice)
               /\ cfg.sort = "MultiwayPowerSort" =>
                      loc.stack.popped = <<>> /\ loc.run_a.start = 0
        /\ "pending_runs" \in DOMAIN loc =>
               /\ loc.pending_runs = <<TimRun(0, Len(slice))>>
               /\ loc.start = Len(slice)

\* the final collapse returns, having merged the runs of the stack from the
\* top down, each with all that follows it up to the end of the slice
CollapseMergesTopDown ==
    /\ pc \in {"powersort_collapse", "multiway_collapse", "timsort_collapse"} =>
           pc' = "returned"
    /\ pc = "powersort_collapse" =>
           NewMerges = [i \in 1 .. Len(StackRuns(loc.stack)) |->
                           <<Reversed(StackRuns(loc.stack))[i].start, Len(slice),
                             [run_length |-> RunLen(Reversed(StackRuns(loc.stack))[i])]>>]
    /\ pc = "multiway_collapse" =>
           /\ SumOfRunLengthCounts(NewMerges) = Len(StackRuns(loc.stack))
           /\ \A i \in 1 .. Len(NewMerges) :
                  /\ NewMerges[i][2] = Len(slice)
                  /\ NewMerges[i][1] + FrontLen(NewMerges[i][3]) =
                         (IF i = 1 THEN loc.run_a.start ELSE NewMerges[i - 1][1])
                  /\ \E j \in 1 .. Len(StackRuns(loc.stack)) :
                         StackRuns(loc.stack)[j].start = NewMerges[i][1]
    /\ pc = "timsort_collapse" =>
           /\ loc.start = Len(slice)
           /\ Len(NewMerges) = Len(loc.pending_runs) - 1

\* C19: once the last run is found every run left on the stack is merged,
\* from the top down; on return the stack of PowerSort and of
\* MultiwayPowerSort is empty and pending_runs of TimSort holds exactly the
\* run [0, n): assert!(start == slice.len()) and
\* assert!(pending_runs.len() == 1) hold.
C19_CollapseEmptiesStack ==
    /\ []NothingPending
    /\ [](cfg.sort \in {"PowerSort", "MultiwayPowerSort", "TimSort"} => pc # "panicked")
    /\ [][CollapseMergesTopDown]_vars

\* TimSort returned after two merges or more, the last one giving the run
\* [0, n) and the one before it ending the slice as well
C19_Witness ==
    /\ cfg.sort = "TimSort"
    /\ pc = "returned"
    /\ "pending_runs" \in DOMAIN loc
    /\ loc.pending_runs = <<TimRun(0, Len(slice))>>
    /\ Len(loc.merges) >= 2
    /\ loc.merges[Len(loc.merges)][1] = 0
    /\ loc.merges[Len(loc.merges) - 1][1] > 0
    /\ loc.merges[Len(loc.merges) - 1][2] = Len(slice)

\* between two iterations no split point is pending: split_points_index is
\* MERGE_K_RUNS, and it never fell below 0
NoSplitPointPending ==
    (cfg.sort = "MultiwayPowerSort" /\ "split_points" \in DOMAIN loc) =>
        /\ pc # "panicked"
        /\ loc.split_points = NoSplitPoints

\* the run lengths handed to a k-way merge: between 1 and MERGE_K_RUNS - 1
\* of them (split_points_index in [1, MERGE_K_RUNS] when it is called), the
\* lengths of runs of the stack from left to right, leaving a non-empty
\* last run
BatchOfRuns(merge) ==
    /\ Len(merge[3].run_lengths) \in 1 .. cfg.K - 1
    /\ \A j \in 1 .. Len(merge[3].run_lengths) :
           \E q \in 1 .. Len(StackRuns(loc.stack)) :
               /\ StackRuns(loc.stack)[q].start =
                      merge[1] + SumTo(merge[3].run_lengths, j - 1)
               /\ RunLen(StackRuns(loc.stack)[q]) = merge[3].run_lengths[j]
    /\ FrontLen(merge[3]) < merge[2] - merge[1]

\* every k-way merge of an iteration and of the final collapse gets such a
\* batch
MergesGetBatches ==
    pc \in {"multiway_loop", "multiway_collapse"} =>
        /\ pc' # "panicked"
        /\ \A i \in 1 .. Len(NewMerges) : BatchOfRuns(NewMerges[i])

\* C21: MultiwayPowerSort never gathers more than MERGE_K_RUNS - 1 runs
\* before it merges: split_points_index stays within [1, MERGE_K_RUNS],
\* every k-way merge gets between 1 and MERGE_K_RUNS - 1 run lengths, listed
\* left to right, whose sum is less than the length of the range merged, in
\* the main loop and in the final collapse.
C21_BatchesFitSplitPoints ==
    /\ []NoSplitPointPending
    /\ [][MergesGetBatches]_vars

\* an iteration of the main loop that merged a full batch of
\* MERGE_K_RUNS - 1 = 3 runs of one power
C21_FullBatchInLoop ==
    /\ "sort" \in DOMAIN cfg
    /\ cfg.sort = "MultiwayPowerSort"
    /\ cfg.K = 4
    /\ pc = "multiway_loop"
    /\ Len(loc.merges) >= 1
    /\ Len(loc.merges[Len(loc.merges)][3].run_lengths) = 3

\* a sort whose main loop merged a full batch of 3 runs, and whose final
\* collapse merged a full batch and then a partial one
C21_Witness ==
    /\ "sort" \in DOMAIN cfg
    /\ cfg.sort = "MultiwayPowerSort"
    /\ cfg.K = 4
    /\ pc = "returned"
    /\ "merges" \in DOMAIN loc
    /\ Len(loc.merges) >= 3
    /\ \E i \in 1 .. Len(loc.merges) :
           /\ Len(loc.merges[i][3].run_lengths) = 3
           /\ loc.merges[i][2] < Len(slice)
    /\ Len(loc.merges[Len(loc.merges) - 1][3].run_lengths) = 3
    /\ loc.merges[Len(loc.merges) - 1][2] = Len(slice)
    /\ Len(loc.merges[Len(loc.merges)][3].run_lengths) < 3
    /\ loc.merges[Len(loc.merges)][1] = 0

\* merge_collapse has returned: timsort is at the head of its loop, or past
\* it with the forced collapse to come
CollapseReturned ==
    /\ cfg.sort = "TimSort"
    /\ pc \in {"timsort_loop", "timsort_collapse"}

PendingLen(i) == loc.pending_runs[i].len

\* every pending run is longer than the next, and longer than the next two
\* together
RunsBalanced ==
    \A i \in 1 .. Len(loc.pending_runs) :
        /\ i + 1 <= Len(loc.pending_runs) => PendingLen(i) > PendingLen(i + 1)
        /\ i + 2 <= Len(loc.pending_runs) =>
               PendingLen(i) > PendingLen(i + 1) + PendingLen(i + 2)

\* C29: each time TimSort::merge_collapse returns, len[i] > len[i+1] +
\* len[i+2] and len[i] > len[i+1] for every index i for which the entries
\* exist; and every merge_at call of merge_collapse and merge_force_collapse
\* satisfies the assertions of merge_at (a failing one panics).
C29_CollapseBalances ==
    cfg.sort = "TimSort" =>
        /\ pc # "panicked"
        /\ CollapseReturned => RunsBalanced

\* three runs pending after a collapse that merged the two runs below the
\* run on top
C29_Witness ==
    /\ CollapseReturned
    /\ Len(loc.pending_runs) = 3
    /\ Len(loc.merges) >= 1
    /\ loc.merges[Len(loc.merges)][2] = loc.pending_runs[3].start
    /\ loc.n = 0

\* four runs pending after a collapse that had nothing to merge
C29_FourPending ==
    /\ CollapseReturned
    /\ Len(loc.pending_runs) = 4

-----------------------------------------------------------------------------
(* Properties of the node-power methods *)

\* floor(K^p * x2 / (2n)) for the doubled midpoint x2 of a run
Bucket(K, p, x2, n) == (Pow(K, p) * x2) \div (2 * n)

\* the reference node power: the smallest p >= 1 at which the midpoints of
\* run_a and run_b fall into different buckets of width n / K^p
RECURSIVE ReferenceFrom(_, _, _, _, _)
ReferenceFrom(K, n, a2, b2, p) ==
    IF Bucket(K, p, a2, n) < Bucket(K, p, b2, n) THEN p
    ELSE ReferenceFrom(K, n, a2, b2, p + 1)

ReferenceNodePower(K, n, run_a, run_b) ==
    ReferenceFrom(K, n, run_a.start + run_a.end, run_b.start + run_b.end, 1)

\* C9: for every supported K, every n within the method's MAX_N and every
\* pair of adjacent non-empty runs inside [0, n), DivisionLoop, BitwiseLoop
\* and MostSignificantSetBit return exactly the reference node power.
C9_NodePowerIsReference ==
    (pc = "node_power_returned" /\ loc.run_a.end = loc.run_b.start)
        => loc.node_power = ReferenceNodePower(cfg.K, loc.n, loc.run_a, loc.run_b)

\* the same statement for the two methods restricted to powers of two
C9_BitMethodsAreReference ==
    (/\ pc = "node_power_returned"
     /\ loc.run_a.end = loc.run_b.start
     /\ cfg.N # "DivisionLoop")
        => loc.node_power = ReferenceNodePower(cfg.K, loc.n, loc.run_a, loc.run_b)

\* DivisionLoop returns the reference whenever it returns a number at all
\* under overflow checks
C9_DivisionLoopChecked ==
    (/\ pc = "node_power_returned"
     /\ loc.run_a.end = loc.run_b.start
     /\ cfg.N = "DivisionLoop"
     /\ cfg.overflow_checks
     /\ loc.node_power # PANIC)
        => loc.node_power = ReferenceNodePower(cfg.K, loc.n, loc.run_a, loc.run_b)

\* the example of the specification: n = 17, run_a = [0, 5), run_b = [5, 9)
C9_Example ==
    /\ ReferenceNodePower(2, 17, Run(0, 5), Run(5, 9)) = 2
    /\ BitwiseLoop(2, 17, Run(0, 5), Run(5, 9), TRUE) = 2

\* C28: for every n <= MAX_N = floor(sqrt(2^w - 1)) and every pair of
\* adjacent non-empty runs inside [0, n), DivisionLoop::node_power never
\* overflows: 2n and the K-multiplied a and b stay <= 2^w - 1 until the loop
\* exits (a build with overflow checks would panic otherwise), so the result
\* is the reference node power.
C28_DivisionLoopNeverOverflows ==
    (/\ pc = "node_power_returned"
     /\ loc.run_a.end = loc.run_b.start
     /\ cfg.N = "DivisionLoop"
     /\ loc.n <= DivisionLoop_MAX_N)
        => /\ DivisionLoop(cfg.K, loc.n, loc.run_a, loc.run_b, TRUE) # PANIC
           /\ loc.node_power = ReferenceNodePower(cfg.K, loc.n, loc.run_a, loc.run_b)

\* n2, a and b before the loop do fit the word for n <= MAX_N: the first
\* a / n2 == b / n2 is computed without overflow
C28_DoublesFit ==
    (/\ pc = "node_power_returned"
     /\ cfg.N = "DivisionLoop"
     /\ loc.n <= DivisionLoop_MAX_N)
        => /\ 2 * loc.n <= USIZE_MAX
           /\ 2 * loc.run_a.start + RunLen(loc.run_a) <= USIZE_MAX
           /\ 2 * loc.run_b.start + RunLen(loc.run_b) <= USIZE_MAX

\* two runs of one element at the end of 15 elements, K = 2: b *= K
\* overflows the word at power 4, the reference node power
C28_Example ==
    /\ pc = "node_power_returned"
    /\ cfg.N = "DivisionLoop"
    /\ cfg.K = 2
    /\ cfg.overflow_checks
    /\ loc.n = 15
    /\ loc.run_a = Run(13, 14)
    /\ loc.run_b = Run(14, 15)
    /\ loc.node_power = PANIC
    /\ ReferenceNodePower(2, 15, Run(13, 14), Run(14, 15)) = 4

-----------------------------------------------------------------------------
(* Properties of the run scanner *)

\* slice[..k] is weakly increasing (f = "le") or strictly decreasing ("gt")
Monotone(s, k, f) == \A i \in 1 .. k - 1 : Cmp(f, s[i], s[i + 1])

\* the length of the longest prefix that is monotone in the sense of f
LongestPrefix(s, f) ==
    CHOOSE k \in 0 .. Len(s) :
        /\ Monotone(s, k, f)
        /\ \A j \in (k + 1) .. Len(s) : ~Monotone(s, j, f)

\* C10: count_run_and_make_ascending returns the length for slices of
\* length 0 or 1; otherwise the length of the longest weakly increasing
\* prefix, leaving the slice alone, when slice[0] <= slice[1], and the
\* length of the longest strictly decreasing prefix, reversed in place, when
\* slice[0] > slice[1]; slice[..result] is non-decreasing on exit and the
\* elements at indices >= result are unchanged.
C10_CountRun ==
    pc = "count_run_returned" =>
        LET n == Len(input)
            r == loc.result
        IN  /\ Len(slice) = n
            /\ n < 2 => (r = n /\ slice = input)
            /\ (n >= 2 /\ Le(input[1], input[2])) =>
                   /\ r = LongestPrefix(input, "le")
                   /\ slice = input
            /\ (n >= 2 /\ Gt(input[1], input[2])) =>
                   /\ r = LongestPrefix(input, "gt")
                   /\ Sub(slice, 0, r) = Reverse(Sub(input, 0, r))
            /\ r \in 0 .. n
            /\ IsSorted(Sub(slice, 0, r))
            /\ Sub(slice, r, n) = Sub(input, r, n)

\* a strictly decreasing prefix of three elements, followed by an equal
\* element, has been reversed
C10_Witness ==
    /\ pc = "count_run_returned"
    /\ Len(input) >= 4
    /\ loc.result = 3
    /\ Gt(input[1], input[2])
    /\ Key(input[3]) = Key(input[4])
    /\ slice # input

-----------------------------------------------------------------------------
(* Properties of next_run *)

\* L: the length of the maximal natural run at the front of s
NaturalRunLen(s) ==
    IF cfg.ONLY_INCREASING_RUNS THEN LongestPrefix(s, "le")
    ELSE Max(LongestPrefix(s, "le"), LongestPrefix(s, "gt"))

\* [start, start + max(L, min(MIN_RUN_LENGTH, n - start)))
NextRunReference(s, start) ==
    Run(start, start + Max(NaturalRunLen(Sub(s, start, Len(s))),
                           Min(cfg.MIN_RUN_LENGTH, Len(s) - start)))

\* an iteration of a main loop, which calls next_run(slice, run_a.end) and
\* leaves the run returned in run_a
NextRunCalled ==
    /\ pc \in {"powersort_loop", "multiway_loop"}
    /\ pc' # "panicked"

\* C20: for every start < n, next_run(slice, start) returns
\* [start, start + max(L, min(MIN_RUN_LENGTH, n - start))), L being the
\* length of the maximal natural run at start: a natural run of at least
\* MIN_RUN_LENGTH elements is returned in full, also when start > 0.
C20_NextRunIsReference ==
    [][NextRunCalled => loc'.run_a = NextRunReference(slice, loc.run_a.end)]_vars

\* the same statement for start = 0, the call that finds the first run
C20_FirstRunIsReference ==
    [][(pc = "sort_call" /\ cfg.sort \in {"PowerSort", "MultiwayPowerSort"}
        /\ Len(slice) >= 2 /\ pc' # "panicked")
           => loc'.run_a = NextRunReference(slice, 0)]_vars

\* what the run returned for start > 0 does satisfy: it begins at start, is
\* not empty, is sorted on exit and lies within the reference run
C20_RunWithinReference ==
    [][NextRunCalled =>
           /\ loc'.run_a.start = loc.run_a.end
           /\ loc'.run_a.end > loc'.run_a.start
           /\ loc'.run_a.end <= NextRunReference(slice, loc.run_a.end).end]_vars

\* a run returned for start > 0 that stops short of the natural run it
\* begins, though it has MIN_RUN_LENGTH elements
C20_Example ==
    /\ "sort" \in DOMAIN cfg
    /\ cfg.sort = "PowerSort"
    /\ cfg.ONLY_INCREASING_RUNS
    /\ pc = "powersort_loop"
    /\ loc.run_a.start > 0
    /\ RunLen(loc.run_a) >= cfg.MIN_RUN_LENGTH
    /\ RunLen(loc.run_a) < NaturalRunLen(Sub(slice, loc.run_a.start, Len(slice)))

-----------------------------------------------------------------------------
(* Properties of the suffix scanners *)

\* slice[index..] is strictly decreasing, or weakly increasing
MonotoneFrom(index) ==
    \A i \in index + 1 .. Len(slice) - 1 :
        IF cfg.decreasing THEN Gt(slice[i], slice[i + 1])
                          ELSE Le(slice[i], slice[i + 1])

\* the smallest index such that slice[index..] is monotone
SmallestSuffixIndex ==
    CHOOSE index \in 0 .. Len(slice) :
        MonotoneFrom(index) /\ \A j \in 0 .. index - 1 : ~MonotoneFrom(j)

\* C27: for every slice, including fully sorted and single-element slices,
\* weakly_increasing_suffix_index returns the smallest index such that
\* slice[index..] is weakly increasing, and strictly_decreasing_suffix_index
\* the smallest index such that slice[index..] is strictly decreasing.
C27_SuffixIndexIsSmallest ==
    pc = "suffix_index_returned" => loc.result = SmallestSuffixIndex

\* what the code returns: the smallest index unless the whole slice is
\* monotone, and then slice.len()
C27_SuffixIndexUnlessMonotone ==
    pc = "suffix_index_returned" =>
        loc.result = (IF MonotoneFrom(0) THEN Len(slice) ELSE SmallestSuffixIndex)

\* a sorted slice of three elements whose suffix index came out as 3
C27_Example ==
    /\ pc = "suffix_index_returned"
    /\ ~cfg.decreasing
    /\ Len(slice) = 3
    /\ IsSorted(slice)
    /\ loc.result = 3

====
